---------------------------- MODULE Spec2Model ----------------------------
(***************************************************************************)
(* Model of the answer-parsing and scoring engine of the MIRP benchmark:   *)
(*   src/3_evaluation_scrips/RQ1_RQ2_RQ3-2_calculate_results_image.py      *)
(*   src/3_evaluation_scrips/RQ3-1_calculate_results_anatomy.py            *)
(*                                                                         *)
(* A Python str is a sequence of one-character strings, so that the        *)
(* regular expressions and the str methods of the source are computed      *)
(* character by character.  An Optional value is None (the empty tuple)    *)
(* or Some(v) (the one-element tuple holding v).                           *)
(***************************************************************************)
EXTENDS Integers, Sequences, FiniteSets, TLC

VARIABLES
    pc,          \* position of the running script: "input" | "parsed" | "loop" | "done"
    ans,         \* model_answer handed to parse_model_answer
    question,    \* question handed to parse_model_answer
    prompt,      \* entire_prompt handed to parse_model_answer
    result,      \* the pair returned by parse_model_answer of the image script
    result_anatomy, \* the pair returned by parse_model_answer of the anatomy script
    spatial,     \* what parse_spatial_relation returned, in the image script and
                 \* in the anatomy script
    run,         \* evaluate_run: preds, targs, correct, incorrect, unsure
    call,        \* evaluate_run: the call the loop has just scored (None before)
    metrics,     \* evaluate_run: the dictionary returned (None before)
    arun,        \* eval_run: the four label lists and the six counters
    r,           \* eval_run: the record the loop has just handled (None before)
    ametrics,    \* eval_run: the dictionary returned (None before)
    seen,        \* eval_run: how many records, left/right records and left/right
                 \* records without expected_answer the loop has read
    arun_exp,    \* eval_run on the same records with other expected answers
    arun_cm,     \* eval_run on the same records with another centre map
    aggregation, \* process_runs / aggregate_runs: the runs handed in and what came back
    amain,       \* main() of the anatomy script: its position, the files it has
                 \* evaluated, the workbooks it has written, the error it raised
    driver,      \* the inference driver: its position in the three loops and the
                 \* files under RESULTS_ROOT
    canon,       \* canon_name: the name handed in, its canonical form, and the
                 \* canonical form of that
    imain        \* main() of the image script: its position, the groups, the
                 \* files evaluated, the workbooks written

parser_vars == <<ans, question, prompt, result, result_anatomy, spatial>>

image_vars == <<run, call, metrics>>

anatomy_vars == <<arun, r, ametrics, seen>>

pair_vars == <<arun_exp, arun_cm>>

script_vars == <<aggregation, amain, driver, canon, imain>>

vars == <<pc, parser_vars, image_vars, anatomy_vars, pair_vars, script_vars>>

---------------------------------------------------------------------------
(* Optional values *)

None == <<>>

Some(v) == <<v>>

---------------------------------------------------------------------------
(* Characters and the str methods the source uses *)

\* \s of the regular expressions and the characters str.strip() removes
WS == {" ", "\n", "\t"}

\* [\(\[\{\'\"\.\s] : the characters allowed before a token
LeadClass == {"(", "[", "{", "'", "\"", "."} \cup WS

\* [\)\]\}\'\"\.\s] : the characters allowed after a token
TrailClass == {")", "]", "}", "'", "\"", "."} \cup WS

\* [.!?] : the sentence terminators
Terminators == {".", "!", "?"}

ToLower ==
    [c \in {"A","B","C","D","E","F","G","H","I","J","K","L","M",
            "N","O","P","Q","R","S","T","U","V","W","X","Y","Z"} |->
       CASE c = "A" -> "a" [] c = "B" -> "b" [] c = "C" -> "c" [] c = "D" -> "d"
         [] c = "E" -> "e" [] c = "F" -> "f" [] c = "G" -> "g" [] c = "H" -> "h"
         [] c = "I" -> "i" [] c = "J" -> "j" [] c = "K" -> "k" [] c = "L" -> "l"
         [] c = "M" -> "m" [] c = "N" -> "n" [] c = "O" -> "o" [] c = "P" -> "p"
         [] c = "Q" -> "q" [] c = "R" -> "r" [] c = "S" -> "s" [] c = "T" -> "t"
         [] c = "U" -> "u" [] c = "V" -> "v" [] c = "W" -> "w" [] c = "X" -> "x"
         [] c = "Y" -> "y" [] c = "Z" -> "z"]

\* str.lower()
lower(s) == [i \in 1..Len(s) |-> IF s[i] \in DOMAIN ToLower THEN ToLower[s[i]] ELSE s[i]]

\* the first index >= i of s whose character is not in class C (Len(s)+1 if none)
RECURSIVE SkipClass(_, _, _)
SkipClass(s, i, C) ==
    IF i <= Len(s) /\ s[i] \in C THEN SkipClass(s, i + 1, C) ELSE i

\* the last index <= i of s whose character is not in class C (0 if none)
RECURSIVE SkipClassBack(_, _, _)
SkipClassBack(s, i, C) ==
    IF i >= 1 /\ s[i] \in C THEN SkipClassBack(s, i - 1, C) ELSE i

\* str.strip()
strip(s) ==
    LET a == SkipClass(s, 1, WS)
        b == SkipClassBack(s, Len(s), WS)
    IN  IF a > b THEN <<>> ELSE SubSeq(s, a, b)

\* w occurs in s at index i
MatchAt(s, i, w) ==
    /\ i >= 1
    /\ i + Len(w) - 1 <= Len(s)
    /\ \A j \in 1..Len(w) : s[i + j - 1] = w[j]

\* w in s
Contains(s, w) == \E i \in 1..(Len(s) - Len(w) + 1) : MatchAt(s, i, w)

\* str.replace(w, ""): every non-overlapping occurrence of w, left to right
RECURSIVE RemoveFrom(_, _, _)
RemoveFrom(s, w, i) ==
    IF i > Len(s) THEN <<>>
    ELSE IF MatchAt(s, i, w) THEN RemoveFrom(s, w, i + Len(w))
    ELSE <<s[i]>> \o RemoveFrom(s, w, i + 1)

replace(s, w) == IF w = <<>> THEN s ELSE RemoveFrom(s, w, 1)

\* the first index >= i of s whose character is in class C (Len(s)+1 if none)
RECURSIVE SkipTo(_, _, _)
SkipTo(s, i, C) ==
    IF i <= Len(s) /\ s[i] \notin C THEN SkipTo(s, i + 1, C) ELSE i

\* str.splitlines(), for the line boundary "\n"
RECURSIVE SplitFrom(_, _)
SplitFrom(s, i) ==
    IF i > Len(s) THEN <<>>
    ELSE LET j == SkipTo(s, i, {"\n"})
         IN  <<SubSeq(s, i, j - 1)>> \o SplitFrom(s, j + 1)

splitlines(s) == SplitFrom(s, 1)

---------------------------------------------------------------------------
(* Words of the source *)

W_above == <<"a", "b", "o", "v", "e">>
W_below == <<"b", "e", "l", "o", "w">>
W_left == <<"l", "e", "f", "t">>
W_right == <<"r", "i", "g", "h", "t">>
W_yes == <<"y", "e", "s">>
W_no == <<"n", "o">>
W_0 == <<"0">>
W_1 == <<"1">>

\* the alternation (0|1|yes|no), in the order the pattern tries it
TokenAlt == <<W_0, W_1, W_yes, W_no>>

\* the alternation (yes|no)
YesNoAlt == <<W_yes, W_no>>

\* the alternation (0|1)
DigitAlt == <<W_0, W_1>>

\* the pairs with the two side pairs ahead of the two height pairs
DirectionPairs_sides_first ==
    << <<W_left, W_right>>, <<W_right, W_left>>,
       <<W_above, W_below>>, <<W_below, W_above>> >>

\* [("above","below"), ("below","above"), ("left","right"), ("right","left")]
DirectionPairs ==
    << <<W_above, W_below>>, <<W_below, W_above>>,
       <<W_left, W_right>>, <<W_right, W_left>> >>

\* (?:answer|correct answer|final answer|solution|response)
KeywordAlt ==
    << <<"a", "n", "s", "w", "e", "r">>,
       <<"c", "o", "r", "r", "e", "c", "t", " ", "a", "n", "s", "w", "e", "r">>,
       <<"f", "i", "n", "a", "l", " ", "a", "n", "s", "w", "e", "r">>,
       <<"s", "o", "l", "u", "t", "i", "o", "n">>,
       <<"r", "e", "s", "p", "o", "n", "s", "e">> >>

\* the separators when the "?" of the group is left out and " is" forgotten
SeparatorAlt_colon == << <<":">> >>

\* (?: is|:)?  : the two separators, and the empty one the "?" allows
SeparatorAlt == << <<" ", "i", "s">>, <<":">>, <<>> >>

\* len(txt) < 150 of the short-sentence gate
ShortLimit == 150

---------------------------------------------------------------------------
(* parse_spatial_relation and parse_model_answer of the image script *)

\* the index of the first alternative of alts that occurs in s at i (0 if none)
RECURSIVE AltFrom(_, _, _, _)
AltFrom(s, i, alts, k) ==
    IF k > Len(alts) THEN 0
    ELSE IF MatchAt(s, i, alts[k]) THEN k
    ELSE AltFrom(s, i, alts, k + 1)

AltAt(s, i, alts) == AltFrom(s, i, alts, 1)

\* the loop of parse_spatial_relation from pair k on; ql and al are lower-cased
RECURSIVE SpatialFrom(_, _, _)
SpatialFrom(ql, al, k) ==
    IF k > Len(DirectionPairs) THEN None
    ELSE LET d   == DirectionPairs[k][1]
             opp == DirectionPairs[k][2]
         IN  IF Contains(ql, d) /\ Contains(al, d) THEN Some(1)
             ELSE IF Contains(ql, d) /\ Contains(al, opp) THEN Some(0)
             ELSE SpatialFrom(ql, al, k + 1)

parse_spatial_relation(q, a) == SpatialFrom(lower(q), lower(a), 1)

\* re.fullmatch(r'[\(\[\{\'\"\.\s]*(0|1)[\)\]\}\'\"\.\s]*', s.strip()) : group 1
sdigit(s) ==
    LET t == strip(s)
        i == SkipClass(t, 1, LeadClass)
        k == AltAt(t, i, DigitAlt)
    IN  IF k # 0 /\ SkipClass(t, i + 1, TrailClass) = Len(t) + 1
        THEN Some(DigitAlt[k]) ELSE None

\* re.fullmatch(r'[\(\[\{\'\"\.\s]*(yes|no)[\)\]\}\'\"\.\s]*', s.strip(), re.I) :
\* group 1, lower-cased
syesno(s) ==
    LET t == strip(s)
        i == SkipClass(t, 1, LeadClass)
        k == AltAt(lower(t), i, YesNoAlt)
    IN  IF k # 0 /\ SkipClass(t, i + Len(YesNoAlt[k]), TrailClass) = Len(t) + 1
        THEN Some(YesNoAlt[k]) ELSE None

\* (0|1|yes|no)[\)\]\}\'\"\.\s]*$ matches t from index i with alternative k
EndTokenAt(t, i, k) ==
    /\ MatchAt(lower(t), i, TokenAlt[k])
    /\ SkipClass(t, i + Len(TokenAlt[k]), TrailClass) = Len(t) + 1

\* a boundary search that looks at the end of the text first
se_token_end_first(s) ==
    LET t  == strip(s)
        i  == SkipClass(t, 1, LeadClass)
        k  == AltAt(lower(t), i, TokenAlt)
        At == {x \in (1..Len(t)) \X (1..Len(TokenAlt)) : EndTokenAt(t, x[1], x[2])}
    IN  IF At # {} THEN Some(TokenAlt[(CHOOSE x \in At : TRUE)[2]])
        ELSE IF k # 0 THEN Some(TokenAlt[k])
        ELSE None

\* re.match(r'^[\(\[\{\'\"\.\s]*(0|1|yes|no)', t, re.I), and when it fails
\* re.search(r'(0|1|yes|no)[\)\]\}\'\"\.\s]*$', t, re.I) : group 1, lower-cased
se_token(s) ==
    LET t  == strip(s)
        i  == SkipClass(t, 1, LeadClass)
        k  == AltAt(lower(t), i, TokenAlt)
        At == {j \in 1..Len(t) : \E m \in 1..Len(TokenAlt) : EndTokenAt(t, j, m)}
    IN  IF k # 0 THEN Some(TokenAlt[k])
        ELSE IF At = {} THEN None
        ELSE LET j == CHOOSE x \in At : \A y \in At : x <= y
                 m == CHOOSE x \in 1..Len(TokenAlt) :
                        /\ EndTokenAt(t, j, x)
                        /\ \A y \in 1..(x - 1) : ~EndTokenAt(t, j, y)
             IN  Some(TokenAlt[m])

\* a conversion of the matched digit that is off by one
int_off_by_one(d) == IF d = W_1 THEN 2 ELSE 1

\* the yes/no mapping with its two branches exchanged
YesNoLabel_exchanged(yn) == IF yn = W_yes THEN 0 ELSE 1

\* int(d) of a matched digit
int(d) == IF d = W_1 THEN 1 ELSE 0

\* 1 if yn == "yes" else 0
YesNoLabel(yn) == IF yn = W_yes THEN 1 ELSE 0

\* 1 if tok in ("1", "yes") else 0
TokenLabel(tok) == IF tok \in {W_1, W_yes} THEN 1 ELSE 0

\* ("\n" not in txt) and (len(re.findall(r'[.!?]', txt)) <= 1) and (len(txt) < 150)
ShortSentence(txt) ==
    /\ ~Contains(txt, <<"\n">>)
    /\ Cardinality({i \in 1..Len(txt) : txt[i] \in Terminators}) <= 1
    /\ Len(txt) < ShortLimit

\* the loop that strips the prompt's lines, from line k on
RECURSIVE StripLinesFrom(_, _, _)
StripLinesFrom(cleaned, lines, k) ==
    IF k > Len(lines) THEN cleaned
    ELSE LET ls == strip(lines[k])
         IN  StripLinesFrom(IF ls # <<>> THEN replace(cleaned, ls) ELSE cleaned,
                            lines, k + 1)

\* a cleaning that keeps the prompt's lines
Cleaned_kept(txt, p) == txt

Cleaned(txt, p) == StripLinesFrom(txt, splitlines(p), 1)

\* a clause search that takes the whole text
FirstClause_whole(cleaned) == IF cleaned = <<>> THEN None ELSE Some(cleaned)

\* re.search(r'[^.!?]+[.!?]?', cleaned) : group 0
FirstClause(cleaned) ==
    LET i == SkipClass(cleaned, 1, Terminators)
        j == SkipTo(cleaned, i, Terminators)
    IN  IF i > Len(cleaned) THEN None
        ELSE Some(SubSeq(cleaned, i, IF j <= Len(cleaned) THEN j ELSE j - 1))

\* keyword k, then separator m, then \s*, then [10], match lc from index i
KeywordPath(lc, i, k, m) ==
    /\ MatchAt(lc, i, KeywordAlt[k])
    /\ MatchAt(lc, i + Len(KeywordAlt[k]), SeparatorAlt[m])
    /\ LET d == SkipClass(lc, i + Len(KeywordAlt[k]) + Len(SeparatorAlt[m]), WS)
       IN  d <= Len(lc) /\ lc[d] \in {"1", "0"}

\* the digit the path captures
KeywordPathDigit(lc, i, k, m) ==
    <<lc[SkipClass(lc, i + Len(KeywordAlt[k]) + Len(SeparatorAlt[m]), WS)]>>

\* a keyword search that takes the last match of the text
KeywordDigit_last(cleaned) ==
    LET lc    == lower(cleaned)
        Paths == {x \in (1..Len(lc)) \X (1..Len(KeywordAlt)) \X (1..Len(SeparatorAlt)) :
                    KeywordPath(lc, x[1], x[2], x[3])}
    IN  IF Paths = {} THEN None
        ELSE LET x == CHOOSE x \in Paths : \A y \in Paths : y[1] <= x[1]
             IN  Some(KeywordPathDigit(lc, x[1], x[2], x[3]))

\* re.search(r'(?:answer|correct answer|final answer|solution|response)'
\*           r'(?: is|:)?\s*([10])', cleaned, re.I) : group 1
KeywordDigit(cleaned) ==
    LET lc    == lower(cleaned)
        Paths == {x \in (1..Len(lc)) \X (1..Len(KeywordAlt)) \X (1..Len(SeparatorAlt)) :
                    KeywordPath(lc, x[1], x[2], x[3])}
        Before(x, y) ==
            \/ x[1] < y[1]
            \/ x[1] = y[1] /\ x[2] < y[2]
            \/ x[1] = y[1] /\ x[2] = y[2] /\ x[3] <= y[3]
    IN  IF Paths = {} THEN None
        ELSE LET x == CHOOSE x \in Paths : \A y \in Paths : Before(x, y)
             IN  Some(KeywordPathDigit(lc, x[1], x[2], x[3]))

\* parse_model_answer(ans, q, prompt) -> (label, residual text)
parse_model_answer(a, q, p) ==
    LET txt     == strip(a)
        d       == sdigit(txt)
        yn      == syesno(txt)
        tok     == se_token(txt)
        sr      == parse_spatial_relation(q, txt)
        cleaned == Cleaned(txt, p)
        m       == FirstClause(cleaned)
        sr2     == IF m = None THEN None ELSE parse_spatial_relation(q, strip(m[1]))
        kw      == KeywordDigit(cleaned)
    IN  IF d # None THEN <<Some(int(d[1])), None>>
        ELSE IF yn # None THEN <<Some(YesNoLabel(yn[1])), None>>
        ELSE IF tok # None THEN <<Some(TokenLabel(tok[1])), None>>
        ELSE IF ShortSentence(txt) /\ sr # None THEN <<sr, None>>
        ELSE IF sr2 # None THEN <<sr2, Some(cleaned)>>
        ELSE IF kw # None THEN <<Some(IF kw[1] = W_1 THEN 1 ELSE 0), Some(cleaned)>>
        ELSE <<None, Some(cleaned)>>

---------------------------------------------------------------------------
(* sklearn.metrics as the two scripts call it.  A score is the fraction    *)
(* <<numerator, denominator>>; NaN is the fraction with denominator 0.     *)

NaN == <<0, 0>>

\* the indices at which two label lists hold the pair (t, p)
PairsAt(targs, preds, t, p) ==
    {i \in 1..Len(targs) : targs[i] = t /\ preds[i] = p}

\* an accuracy that divides by max(len, 1)
accuracy_score_guarded(targs, preds) ==
    <<Cardinality({i \in 1..Len(targs) : targs[i] = preds[i]}),
      IF Len(targs) = 0 THEN 1 ELSE Len(targs)>>

\* accuracy_score(targs, preds): the share of positions that agree
accuracy_score(targs, preds) ==
    <<Cardinality({i \in 1..Len(targs) : targs[i] = preds[i]}), Len(targs)>>

\* f1_score(targs, preds, zero_division=0): 2tp / (2tp + fp + fn), label 1 positive
f1_score(targs, preds) ==
    LET tp == Cardinality(PairsAt(targs, preds, 1, 1))
        fp == Cardinality(PairsAt(targs, preds, 0, 1))
        fn == Cardinality(PairsAt(targs, preds, 1, 0))
    IN  IF tp = 0 THEN <<0, 1>> ELSE <<2 * tp, 2 * tp + fp + fn>>

---------------------------------------------------------------------------
(* evaluate_run of the image script *)

\* preds, targs = [], [] ; correct = incorrect = unsure = 0
RunStart ==
    [preds |-> <<>>, targs |-> <<>>, correct |-> 0, incorrect |-> 0, unsure |-> 0]

\* pred, _ = parse_model_answer(call["model_answer"], call.get("question", ""),
\*                              call.get("entire_prompt", ""))
CallParsed(c) == parse_model_answer(c.model_answer, c.question, c.entire_prompt)[1]

\* a fallback that takes the expected answer itself
ImagePred_expected(exp, parsed) == IF parsed = None THEN exp ELSE parsed[1]

\* the prediction the loop scores: the parsed label, or 1 - exp when there is none
ImagePred(exp, parsed) == IF parsed = None THEN 1 - exp ELSE parsed[1]

\* the body of "for call in entry['results_call']", given the parsed label
EvaluateParsed(st, c, parsed) ==
    LET exp  == c.expected_answer
        pred == ImagePred(exp, parsed)
    IN  [preds     |-> Append(st.preds, pred),
         targs     |-> Append(st.targs, exp),
         correct   |-> st.correct + (IF pred = exp THEN 1 ELSE 0),
         incorrect |-> st.incorrect + (IF pred = exp THEN 0 ELSE 1),
         unsure    |-> st.unsure + (IF parsed = None THEN 1 ELSE 0)]

\* one iteration of "for call in entry['results_call']"
EvaluateCall(st, c) == EvaluateParsed(st, c, CallParsed(c))

\* the dictionary evaluate_run returns
RunMetrics(st) ==
    [accuracy        |-> accuracy_score(st.targs, st.preds),
     f1              |-> f1_score(st.targs, st.preds),
     correct_count   |-> st.correct,
     incorrect_count |-> st.incorrect,
     unsure_count    |-> st.unsure]

---------------------------------------------------------------------------
(* parse_spatial_relation and parse_model_answer of the anatomy script *)

\* the loop of the anatomy script's parse_spatial_relation from pair k on
RECURSIVE SpatialFrom_anatomy(_, _, _)
SpatialFrom_anatomy(q, a, k) ==
    IF k > Len(DirectionPairs) THEN None
    ELSE LET d   == DirectionPairs[k][1]
             opp == DirectionPairs[k][2]
         IN  IF Contains(q, d) /\ Contains(a, d) THEN Some(1)
             ELSE IF Contains(q, d) /\ Contains(a, opp) THEN Some(0)
             ELSE SpatialFrom_anatomy(q, a, k + 1)

parse_spatial_relation_anatomy(q, a) == SpatialFrom_anatomy(lower(q), lower(a), 1)

\* "$" : the end of the string, or the place before a final line break
AtDollar(t, i) == i = Len(t) + 1 \/ (i = Len(t) /\ t[i] = "\n")

\* some run of trailing-class characters from index i reaches "$"
TrailToDollar(t, i) ==
    \E j \in i..SkipClass(t, i, TrailClass) : AtDollar(t, j)

\* re.match(r'^[\(\[\{\'\"\.\s]*(0|1)[\)\]\}\'\"\.\s]*$', s.strip()) : group 1
sdigit_anatomy(s) ==
    LET t == strip(s)
        i == SkipClass(t, 1, LeadClass)
        k == AltAt(t, i, DigitAlt)
    IN  IF k # 0 /\ TrailToDollar(t, i + 1)
        THEN Some(DigitAlt[k]) ELSE None

\* re.match(r'^[\(\[\{\'\"\.\s]*(yes|no)[\)\]\}\'\"\.\s]*$', s.strip(), re.I) :
\* group 1, lower-cased
syesno_anatomy(s) ==
    LET t == strip(s)
        i == SkipClass(t, 1, LeadClass)
        k == AltAt(lower(t), i, YesNoAlt)
    IN  IF k # 0 /\ TrailToDollar(t, i + Len(YesNoAlt[k]))
        THEN Some(YesNoAlt[k]) ELSE None

\* (0|1|yes|no)[\)\]\}\'\"\.\s]*$ matches t from index i with alternative k
EndTokenAt_anatomy(t, i, k) ==
    /\ MatchAt(lower(t), i, TokenAlt[k])
    /\ TrailToDollar(t, i + Len(TokenAlt[k]))

\* a boundary search that looks at the start of the text only
se_token_anatomy_start_only(s) ==
    LET t == strip(s)
        i == SkipClass(t, 1, LeadClass)
        k == AltAt(lower(t), i, TokenAlt)
    IN  IF k # 0 THEN Some(TokenAlt[k]) ELSE None

\* re.match(r'^[\(\[\{\'\"\.\s]*(0|1|yes|no)', t, re.I) or
\* re.search(r'(0|1|yes|no)[\)\]\}\'\"\.\s]*$', t, re.I) : group 1, lower-cased
se_token_anatomy(s) ==
    LET t  == strip(s)
        i  == SkipClass(t, 1, LeadClass)
        k  == AltAt(lower(t), i, TokenAlt)
        At == {j \in 1..Len(t) :
                 \E m \in 1..Len(TokenAlt) : EndTokenAt_anatomy(t, j, m)}
    IN  IF k # 0 THEN Some(TokenAlt[k])
        ELSE IF At = {} THEN None
        ELSE LET j == CHOOSE x \in At : \A y \in At : x <= y
                 m == CHOOSE x \in 1..Len(TokenAlt) :
                        /\ EndTokenAt_anatomy(t, j, x)
                        /\ \A y \in 1..(x - 1) : ~EndTokenAt_anatomy(t, j, y)
             IN  Some(TokenAlt[m])

\* parse_model_answer(ans, q, prompt) of the anatomy script, branches A to E
parse_model_answer_anatomy(a, q, p) ==
    LET txt     == strip(a)
        d       == sdigit_anatomy(txt)
        y       == syesno_anatomy(txt)
        t       == se_token_anatomy(txt)
        sr      == parse_spatial_relation_anatomy(q, txt)
        cleaned == Cleaned(txt, p)
        m       == FirstClause(cleaned)
        sr2     == IF m = None THEN None
                   ELSE parse_spatial_relation_anatomy(q, strip(m[1]))
        kw      == KeywordDigit(cleaned)
    IN  IF d # None THEN <<Some(int(d[1])), None>>
        ELSE IF y = Some(W_yes) THEN <<Some(1), None>>
        ELSE IF y = Some(W_no) THEN <<Some(0), None>>
        ELSE IF t # None THEN <<Some(TokenLabel(t[1])), None>>
        ELSE IF ShortSentence(txt) /\ sr # None THEN <<sr, None>>
        ELSE IF sr2 # None THEN <<sr2, Some(cleaned)>>
        ELSE IF kw # None THEN <<Some(IF kw[1] = W_1 THEN 1 ELSE 0), Some(cleaned)>>
        ELSE <<None, Some(cleaned)>>

---------------------------------------------------------------------------
(* load_centres, canon_name and eval_run of the anatomy script *)

\* str.split(): the maximal runs of non-whitespace characters, from index i on
RECURSIVE SplitWords(_, _)
SplitWords(s, i) ==
    LET a == SkipClass(s, i, WS)
        b == SkipTo(s, a, WS)
    IN  IF a > Len(s) THEN <<>>
        ELSE <<SubSeq(s, a, b - 1)>> \o SplitWords(s, b)

split(s) == SplitWords(s, 1)

\* "_".join(parts)
RECURSIVE join(_)
join(parts) ==
    IF parts = <<>> THEN <<>>
    ELSE IF Len(parts) = 1 THEN parts[1]
    ELSE parts[1] \o <<"_">> \o join(Tail(parts))

\* a canonical form that leaves the side word where it stands
canon_name_side_first(name) == join(split(strip(lower(name))))

\* a canonical form that sets the side word off with a space
canon_name_spaced_side(name) ==
    LET parts == split(strip(lower(name)))
    IN  IF parts # <<>> /\ parts[1] \in {W_left, W_right}
        THEN join(Tail(parts)) \o <<" ">> \o parts[1]
        ELSE join(parts)

\* canon_name(name)
canon_name(name) ==
    LET n     == strip(lower(name))
        parts == split(n)
        side  == IF parts # <<>> /\ parts[1] \in {W_left, W_right}
                 THEN Some(parts[1]) ELSE None
        base  == join(IF side # None THEN Tail(parts) ELSE parts)
    IN  IF parts = <<>> THEN n
        ELSE IF side # None THEN base \o <<"_">> \o side[1]
        ELSE base

\* the literal parts of r'is the (.+?) to the (left|right) of the (.+?)\?'
RX_is_the == <<"i", "s", " ", "t", "h", "e", " ">>

RX_to_the == <<" ", "t", "o", " ", "t", "h", "e", " ">>

RX_of_the == <<" ", "o", "f", " ", "t", "h", "e", " ">>

\* " to the (left|right) of the " : the two forms of the middle of the pattern
RX_middle == <<RX_to_the \o W_left \o RX_of_the, RX_to_the \o W_right \o RX_of_the>>

\* " to the left of " and " to the right of " of the anatomy truth
S_to_the_left_of ==
    <<" ", "t", "o", " ", "t", "h", "e", " ", "l", "e", "f", "t", " ", "o", "f", " ">>

S_to_the_right_of ==
    <<" ", "t", "o", " ", "t", "h", "e", " ", "r", "i", "g", "h", "t", " ", "o", "f", " ">>

\* "." of the pattern: any character but a line break
DotRun(s, a, b) == a <= b /\ \A k \in a..b : s[k] # "\n"

\* the pattern matches q (re.I) with "is the " at i, the middle at j and "\?" at e
ObjectMatch(q, i, j, e) ==
    LET lq == lower(q)
    IN  /\ MatchAt(lq, i, RX_is_the)
        /\ DotRun(q, i + Len(RX_is_the), j - 1)
        /\ AltAt(lq, j, RX_middle) # 0
        /\ DotRun(q, j + Len(RX_middle[AltAt(lq, j, RX_middle)]), e - 1)
        /\ q[e] = "?"

\* re.search(r'is the (.+?) to the (left|right) of the (.+?)\?', q, re.I):
\* (group 1, group 3) of the leftmost match with the shortest lazy groups
ObjectSearch(q) ==
    LET lq == lower(q)
        Is == {i \in 1..Len(q) : MatchAt(lq, i, RX_is_the)}
        Js == {j \in 1..Len(q) : AltAt(lq, j, RX_middle) # 0}
        Es == {e \in 1..Len(q) : q[e] = "?"}
        Ms == {x \in Is \X Js \X Es : ObjectMatch(q, x[1], x[2], x[3])}
        Before(x, y) ==
            \/ x[1] < y[1]
            \/ x[1] = y[1] /\ x[2] < y[2]
            \/ x[1] = y[1] /\ x[2] = y[2] /\ x[3] <= y[3]
    IN  IF Ms = {} THEN None
        ELSE LET x == CHOOSE x \in Ms : \A y \in Ms : Before(x, y)
                 g == RX_middle[AltAt(lq, x[2], RX_middle)]
             IN  Some(<<SubSeq(q, x[1] + Len(RX_is_the), x[2] - 1),
                        SubSeq(q, x[2] + Len(g), x[3] - 1)>>)

\* the dictionary comprehension over e.get("label_info", []): the last entry of a
\* class name wins
LabelMap(info) ==
    [n \in {info[i].class_name : i \in 1..Len(info)} |->
       LET k == CHOOSE k \in 1..Len(info) :
                  /\ info[k].class_name = n
                  /\ \A m \in (k + 1)..Len(info) : info[m].class_name # n
       IN  <<info[k].center_x, info[k].center_y>>]

\* load_centres(path), on the decoded JSON list: the last entry of a file name wins
load_centres(data) ==
    [f \in {data[i].filename : i \in 1..Len(data)} |->
       LET k == CHOOSE k \in 1..Len(data) :
                  /\ data[k].filename = f
                  /\ \A m \in (k + 1)..Len(data) : data[m].filename # f
       IN  LabelMap(data[k].label_info)]

\* the lists and counters eval_run starts from
ArunStart ==
    [anat_preds |-> <<>>, anat_targs |-> <<>>, img_preds |-> <<>>, img_targs |-> <<>>,
     anat_corr |-> 0, anat_wrong |-> 0, anat_tot |-> 0,
     img_corr |-> 0, img_wrong |-> 0, img_tot |-> 0]

\* ("left" not in q.lower()) and ("right" not in q.lower()) is false
IsLeftRight(q) == Contains(lower(q), W_left) \/ Contains(lower(q), W_right)

\* "not obj" of an optional string: None or the empty string
Falsy(o) == o = None \/ o[1] = <<>>

\* pa, _ = parse_model_answer(r.get("model_answer", ""), q, r.get("entire_prompt", ""))
RecordParsed(rec) ==
    parse_model_answer_anatomy(rec.model_answer, rec.question, rec.entire_prompt)[1]

\* pa: the parsed label, or 1 - (exp if exp is not None else 1) when there is none
AnatomyPred(exp, parsed) ==
    IF parsed = None THEN 1 - (IF exp # None THEN exp[1] ELSE 1) ELSE parsed[1]

\* an image view that counts a record without an expected answer too
ImageView_tally_all(st, exp, pa) ==
    IF exp = None THEN [st EXCEPT !.img_tot = @ + 1, !.img_wrong = @ + 1]
    ELSE [st EXCEPT !.img_tot   = @ + 1,
                    !.img_corr  = @ + (IF pa = exp[1] THEN 1 ELSE 0),
                    !.img_wrong = @ + (IF pa # exp[1] THEN 1 ELSE 0),
                    !.img_preds = Append(@, pa),
                    !.img_targs = Append(@, exp[1])]

\* the image view of one record
ImageView(st, exp, pa) ==
    IF exp = None THEN st
    ELSE [st EXCEPT !.img_tot   = @ + 1,
                    !.img_corr  = @ + (IF pa = exp[1] THEN 1 ELSE 0),
                    !.img_wrong = @ + (IF pa # exp[1] THEN 1 ELSE 0),
                    !.img_preds = Append(@, pa),
                    !.img_targs = Append(@, exp[1])]

\* obj1, obj2: the supplied names, or the two groups of the pattern when a name
\* is missing and the pattern matches
ObjectNames(rec) ==
    LET m == ObjectSearch(rec.question)
    IN  IF (Falsy(rec.object1_name) \/ Falsy(rec.object2_name)) /\ m # None
        THEN <<Some(strip(m[1][1])), Some(strip(m[1][2]))>>
        ELSE <<rec.object1_name, rec.object2_name>>

\* the truth with the two comparisons the other way round
Real_same_side(q, cx1, cx2) ==
    IF \/ Contains(lower(q), S_to_the_left_of) /\ cx1 < cx2
       \/ Contains(lower(q), S_to_the_right_of) /\ cx1 > cx2
    THEN 1 ELSE 0

\* real = 1 if (" to the left of " in q.lower() and cx1 > cx2) or
\*             (" to the right of " in q.lower() and cx1 < cx2) else 0
Real(q, cx1, cx2) ==
    IF \/ Contains(lower(q), S_to_the_left_of) /\ cx1 > cx2
       \/ Contains(lower(q), S_to_the_right_of) /\ cx1 < cx2
    THEN 1 ELSE 0

\* the anatomy truth of one record: None where the loop says "continue"
AnatomyTruth(rec, cm) ==
    LET names == ObjectNames(rec)
        fn    == rec.file_name
    IN  IF fn \notin DOMAIN cm \/ Falsy(names[1]) \/ Falsy(names[2]) THEN None
        ELSE LET k1 == canon_name(names[1][1])
                 k2 == canon_name(names[2][1])
             IN  IF k1 \notin DOMAIN cm[fn] \/ k2 \notin DOMAIN cm[fn] THEN None
                 ELSE Some(Real(rec.question, cm[fn][k1][1], cm[fn][k2][1]))

\* the anatomy view of one record
AnatomyView(st, pa, real) ==
    IF real = None THEN st
    ELSE [st EXCEPT !.anat_tot   = @ + 1,
                    !.anat_corr  = @ + (IF pa = real[1] THEN 1 ELSE 0),
                    !.anat_wrong = @ + (IF pa # real[1] THEN 1 ELSE 0),
                    !.anat_preds = Append(@, pa),
                    !.anat_targs = Append(@, real[1])]

\* what the loop body computes from one record before it touches the tallies
Scored(rec, cm) ==
    [left_right |-> IsLeftRight(rec.question),
     parsed     |-> RecordParsed(rec),
     real       |-> AnatomyTruth(rec, cm)]

\* the loop body with the anatomy "continue" ahead of the image view
EvalScored_skip_first(st, rec, sc) ==
    LET pa == AnatomyPred(rec.expected_answer, sc.parsed)
    IN  IF ~sc.left_right \/ sc.real = None THEN st
        ELSE AnatomyView(ImageView(st, rec.expected_answer, pa), pa, sc.real)

\* the body of "for r in entry['results_call']", given what it computed
EvalScored(st, rec, sc) ==
    LET pa == AnatomyPred(rec.expected_answer, sc.parsed)
    IN  IF ~sc.left_right THEN st
        ELSE AnatomyView(ImageView(st, rec.expected_answer, pa), pa, sc.real)

\* one iteration of "for r in entry['results_call']" of eval_run
EvalRecord(st, rec, cm) == EvalScored(st, rec, Scored(rec, cm))

\* the dictionary eval_run returns
ArunMetrics(st) ==
    [anat_acc       |-> IF st.anat_targs # <<>>
                        THEN accuracy_score(st.anat_targs, st.anat_preds) ELSE NaN,
     anat_f1        |-> IF st.anat_targs # <<>>
                        THEN f1_score(st.anat_targs, st.anat_preds) ELSE NaN,
     anat_correct   |-> st.anat_corr,
     anat_incorrect |-> st.anat_wrong,
     anat_total     |-> st.anat_tot,
     img_acc        |-> IF st.img_targs # <<>>
                        THEN accuracy_score(st.img_targs, st.img_preds) ELSE NaN,
     img_f1         |-> IF st.img_targs # <<>>
                        THEN f1_score(st.img_targs, st.img_preds) ELSE NaN,
     img_correct    |-> st.img_corr,
     img_incorrect  |-> st.img_wrong,
     img_total      |-> st.img_tot]

---------------------------------------------------------------------------
(* The parser harness: every answer built from at most MaxAtoms fragments, *)
(* every question and prompt of a small set, and one call of the parser    *)

MaxAtoms == 3

\* fragments of model answers: tokens, wrappers, a letter, a direction word,
\* a keyword phrase, a line break
AnswerAtoms ==
    { <<"0">>, <<"1">>, <<"Y", "e", "s">>, <<"n", "o">>,
      <<" ">>, <<".">>, <<"(">>, <<")">>, <<"'">>, <<"t">>,
      <<"l", "e", "f", "t">>,
      <<"a", "n", "s", "w", "e", "r", " ", "i", "s", " ", "0">>,
      <<"\n">> }

RECURSIVE AtomTexts(_)
AtomTexts(n) ==
    IF n = 0 THEN {<<>>}
    ELSE LET S == AtomTexts(n - 1)
         IN  S \cup {s \o a : s \in S, a \in AnswerAtoms}

\* "Nothing can be determined"
A_nothing ==
    <<"N", "o", "t", "h", "i", "n", "g", " ", "c", "a", "n", " ", "b", "e", " ",
      "d", "e", "t", "e", "r", "m", "i", "n", "e", "d">>

\* "The correct answer is 0 since the kidney is on the left side"
A_kidney_on_left ==
    <<"T", "h", "e", " ", "c", "o", "r", "r", "e", "c", "t", " ", "a", "n", "s", "w",
      "e", "r", " ", "i", "s", " ", "0", " ", "s", "i", "n", "c", "e", " ", "t", "h",
      "e", " ", "k", "i", "d", "n", "e", "y", " ", "i", "s", " ", "o", "n", " ", "t",
      "h", "e", " ", "l", "e", "f", "t", " ", "s", "i", "d", "e">>

\* "It is to the right"
A_to_the_right ==
    <<"I", "t", " ", "i", "s", " ", "t", "o", " ", "t", "h", "e", " ", "r", "i", "g",
      "h", "t">>

\* "No, the answer is 1"
A_no_answer_is_1 ==
    <<"N", "o", ",", " ", "t", "h", "e", " ", "a", "n", "s", "w", "e", "r", " ", "i",
      "s", " ", "1">>

\* "Unclear. It may be left."
A_two_sentences ==
    <<"U", "n", "c", "l", "e", "a", "r", ".", " ", "I", "t", " ", "m", "a", "y", " ",
      "b", "e", " ", "l", "e", "f", "t", ".">>

\* a sentence of ShortLimit characters and more: the letter x ShortLimit times,
\* then ". It is left"
A_long ==
    [i \in 1..ShortLimit |-> "x"] \o
    <<".", " ", "I", "t", " ", "i", "s", " ", "l", "e", "f", "t">>

\* "Answer:1 I think"
A_answer_colon_1 ==
    <<"A", "n", "s", "w", "e", "r", ":", "1", " ", "I", " ", "t", "h", "i", "n", "k">>

\* "response 1, final answer: 0 I think"
A_two_anchors ==
    <<"r", "e", "s", "p", "o", "n", "s", "e", " ", "1", ",", " ", "f", "i", "n", "a",
      "l", " ", "a", "n", "s", "w", "e", "r", ":", " ", "0", " ", "I", " ", "t", "h",
      "i", "n", "k">>

\* whole replies
Replies ==
    {A_nothing, A_kidney_on_left, A_to_the_right, A_no_answer_is_1, A_two_sentences,
     A_long, A_answer_colon_1, A_two_anchors}

\* the answers handed to the parser: the fragment texts and the whole replies
Answers == AtomTexts(MaxAtoms) \cup Replies

Q_left_of ==
    <<"I", "s", " ", "t", "h", "e", " ", "l", "i", "v", "e", "r", " ", "t", "o", " ",
      "t", "h", "e", " ", "l", "e", "f", "t", " ", "o", "f", " ", "t", "h", "e", " ",
      "s", "p", "l", "e", "e", "n", "?">>

Q_above ==
    <<"I", "s", " ", "t", "h", "e", " ", "l", "i", "v", "e", "r", " ", "a", "b", "o",
      "v", "e", " ", "t", "h", "e", " ", "s", "p", "l", "e", "e", "n", "?">>

Questions == {<<>>, Q_left_of, Q_above}

\* "Is the left kidney to the right of the liver?" : a question that names a
\* side-qualified structure
Q_kidney_right_of ==
    <<"I", "s", " ", "t", "h", "e", " ", "l", "e", "f", "t", " ", "k", "i", "d", "n",
      "e", "y", " ", "t", "o", " ", "t", "h", "e", " ", "r", "i", "g", "h", "t", " ",
      "o", "f", " ", "t", "h", "e", " ", "l", "i", "v", "e", "r", "?">>

\* "Reply 1 or 0" / "left" : a prompt whose second line an answer may echo
P_two_lines ==
    <<"R", "e", "p", "l", "y", " ", "1", " ", "o", "r", " ", "0", "\n",
      "l", "e", "f", "t">>

Prompts == {<<>>, P_two_lines}

\* the values the variables of a script hold while another one runs
ParserIdle ==
    /\ ans = <<>> /\ question = <<>> /\ prompt = <<>>
    /\ result = <<None, None>> /\ result_anatomy = <<None, None>>
    /\ spatial = <<None, None>>

ImageIdle == run = RunStart /\ call = None /\ metrics = None

SeenStart == [records |-> 0, left_right |-> 0, no_expected |-> 0]

AnatomyIdle == arun = ArunStart /\ r = None /\ ametrics = None /\ seen = SeenStart

PairIdle == arun_exp = ArunStart /\ arun_cm = ArunStart

\* nothing handed to an aggregator, nothing returned
AggregationIdle == [run_files |-> <<>>, run_paths |-> <<>>, res |-> None, agg_res |-> None]

ScriptIdle ==
    /\ aggregation = AggregationIdle /\ amain = None /\ driver = None
    /\ canon = None /\ imain = None

ParseInit ==
    /\ pc = "input"
    /\ \/ ans \in Answers /\ question \in Questions
       \/ ans \in Replies /\ question = Q_kidney_right_of
    /\ prompt \in Prompts
    /\ result = <<None, None>>
    /\ result_anatomy = <<None, None>>
    /\ spatial = <<None, None>>
    /\ ImageIdle /\ AnatomyIdle /\ PairIdle /\ ScriptIdle

\* one call of parse_model_answer, in each of the two scripts
Parse ==
    /\ pc = "input"
    /\ pc' = "parsed"
    /\ result' = parse_model_answer(ans, question, prompt)
    /\ result_anatomy' = parse_model_answer_anatomy(ans, question, prompt)
    /\ UNCHANGED <<ans, question, prompt, spatial, image_vars, anatomy_vars, pair_vars, script_vars>>

ParseNext == Parse

SpecParse == ParseInit /\ [][ParseNext]_vars

---------------------------------------------------------------------------
(* parse_spatial_relation on questions and texts of at most MaxWords words *)

MaxWords == 2

\* the four direction words in mixed letter case, a blank and another letter
SpatialAtoms ==
    { <<"a", "b", "o", "v", "e">>, <<"B", "e", "l", "o", "w">>,
      <<"l", "e", "f", "t">>, <<"R", "I", "G", "H", "T">>, <<" ">>, <<"x">> }

RECURSIVE WordTexts(_)
WordTexts(n) ==
    IF n = 0 THEN {<<>>}
    ELSE LET S == WordTexts(n - 1)
         IN  S \cup {s \o a : s \in S, a \in SpatialAtoms}

SpatialTexts == WordTexts(MaxWords)

SpatialInit ==
    /\ pc = "input"
    /\ question \in SpatialTexts
    /\ ans \in SpatialTexts
    /\ prompt = <<>>
    /\ result = <<None, None>>
    /\ result_anatomy = <<None, None>>
    /\ spatial = <<None, None>>
    /\ ImageIdle /\ AnatomyIdle /\ PairIdle /\ ScriptIdle

\* one call of parse_spatial_relation, in each of the two scripts
Scan ==
    /\ pc = "input"
    /\ pc' = "scanned"
    /\ spatial' = <<parse_spatial_relation(question, ans),
                    parse_spatial_relation_anatomy(question, ans)>>
    /\ UNCHANGED <<ans, question, prompt, result, result_anatomy,
                   image_vars, anatomy_vars, pair_vars, script_vars>>

SpatialNext == Scan

SpecSpatial == SpatialInit /\ [][SpatialNext]_vars

---------------------------------------------------------------------------
(* evaluate_run on a run file of at most MaxCalls calls *)

MaxCalls == 3

A_1 == <<"1">>

A_0 == <<"0">>

A_No == <<"N", "o">>

\* "I think it's hard to tell."
A_hard_to_tell ==
    <<"I", " ", "t", "h", "i", "n", "k", " ", "i", "t", "'", "s", " ", "h", "a", "r",
      "d", " ", "t", "o", " ", "t", "e", "l", "l", ".">>

\* "It is on the left"
A_on_the_left ==
    <<"I", "t", " ", "i", "s", " ", "o", "n", " ", "t", "h", "e", " ", "l", "e", "f", "t">>

ImageAnswers == {A_1, A_0, A_No, A_hard_to_tell, A_on_the_left}

\* the calls of a run file: call["expected_answer"] is 0 or 1
Calls ==
    { [model_answer |-> a, question |-> q, entire_prompt |-> p, expected_answer |-> e] :
      a \in ImageAnswers, q \in {Q_left_of, Q_above}, p \in {<<>>, P_two_lines},
      e \in {0, 1} }

\* the parsed label of every call of the set, computed once
ParsedCalls == [c \in Calls |-> CallParsed(c)]

ImageInit ==
    /\ pc = "loop"
    /\ ImageIdle /\ ParserIdle /\ AnatomyIdle /\ PairIdle /\ ScriptIdle

\* one iteration of the loop over the calls of the run file
ImageCall ==
    /\ pc = "loop"
    /\ Len(run.targs) < MaxCalls
    /\ \E c \in Calls :
         /\ run' = EvaluateParsed(run, c, ParsedCalls[c])
         /\ call' = Some(c)
    /\ UNCHANGED <<pc, metrics, parser_vars, anatomy_vars, pair_vars, script_vars>>

\* the end of the loop: the scores and the returned dictionary
ImageReturn ==
    /\ pc = "loop"
    /\ pc' = "done"
    /\ metrics' = Some(RunMetrics(run))
    /\ UNCHANGED <<run, call, parser_vars, anatomy_vars, pair_vars, script_vars>>

ImageNext == ImageCall \/ ImageReturn

SpecImage == ImageInit /\ [][ImageNext]_vars

---------------------------------------------------------------------------
(* eval_run on a run file of at most MaxRecords records *)

MaxRecords == 2

N_liver == <<"l", "i", "v", "e", "r">>

N_spleen == <<"s", "p", "l", "e", "e", "n">>

N_left_kidney == <<"L", "e", "f", "t", " ", "K", "i", "d", "n", "e", "y">>

N_kidney_left == <<"k", "i", "d", "n", "e", "y", "_", "l", "e", "f", "t">>

Q_right_of ==
    <<"I", "s", " ", "t", "h", "e", " ", "l", "i", "v", "e", "r", " ", "t", "o", " ",
      "t", "h", "e", " ", "r", "i", "g", "h", "t", " ", "o", "f", " ", "t", "h", "e", " ",
      "s", "p", "l", "e", "e", "n", "?">>

\* the question of the comment in main(): an above/below question that names a
\* side-qualified structure
Q_kidney_below ==
    <<"I", "s", " ", "t", "h", "e", " ", "l", "e", "f", "t", " ", "k", "i", "d", "n",
      "e", "y", " ", "b", "e", "l", "o", "w", " ", "t", "h", "e", " ", "l", "i", "v",
      "e", "r", "?">>

\* "I cannot tell"
A_cannot_tell ==
    <<"I", " ", "c", "a", "n", "n", "o", "t", " ", "t", "e", "l", "l">>

\* the decoded centres file: img_a holds three structures, img_b lacks the spleen
CentresData ==
    << [filename |-> "img_a",
        label_info |-> << [class_name |-> N_liver, center_x |-> 120, center_y |-> 50],
                          [class_name |-> N_spleen, center_x |-> 80, center_y |-> 50],
                          [class_name |-> N_kidney_left, center_x |-> 120,
                           center_y |-> 70] >>],
       [filename |-> "img_b",
        label_info |-> << [class_name |-> N_liver, center_x |-> 120,
                           center_y |-> 50] >>] >>

\* another centres file: liver and spleen of img_a on the other sides, img_b gone
CentresDataAlt ==
    << [filename |-> "img_a",
        label_info |-> << [class_name |-> N_liver, center_x |-> 80, center_y |-> 50],
                          [class_name |-> N_spleen, center_x |-> 120, center_y |-> 50],
                          [class_name |-> N_kidney_left, center_x |-> 120,
                           center_y |-> 70] >>] >>

\* centre_map = load_centres(centres_js)
centre_map == load_centres(CentresData)

centre_map_alt == load_centres(CentresDataAlt)

\* object1_name / object2_name of a record: one of them absent, or both supplied
ObjectPairs ==
    { <<Some(N_spleen), None>>,
      <<Some(N_spleen), Some(N_liver)>>, <<Some(N_left_kidney), Some(N_liver)>> }

\* r.get("expected_answer"): None, 0 or 1
Expected == {None, Some(0), Some(1)}

\* the records of a run file, each with the file_name of its entry
Records ==
    { [file_name |-> f, question |-> q, model_answer |-> a, entire_prompt |-> <<>>,
       expected_answer |-> e, object1_name |-> o[1], object2_name |-> o[2]] :
      f \in {"img_a", "img_b", "img_c"},
      q \in {Q_left_of, Q_right_of, Q_kidney_below, Q_above},
      a \in {A_1, A_cannot_tell},
      e \in Expected,
      o \in ObjectPairs }

\* what the loop body computes of every record of the set, computed once
ScoredRecords == [rec \in Records |-> Scored(rec, centre_map)]

ScoredRecordsAlt == [rec \in Records |-> Scored(rec, centre_map_alt)]

\* the count of the records read, after one more
SeenAfter(sn, rec) ==
    [records     |-> sn.records + 1,
     left_right  |-> sn.left_right + (IF IsLeftRight(rec.question) THEN 1 ELSE 0),
     no_expected |-> sn.no_expected +
                     (IF IsLeftRight(rec.question) /\ rec.expected_answer = None
                      THEN 1 ELSE 0)]

AnatomyInit ==
    /\ pc = "loop"
    /\ AnatomyIdle /\ ParserIdle /\ ImageIdle /\ PairIdle /\ ScriptIdle

\* one iteration of the loop over the records of the run file
AnatomyRecord ==
    /\ pc = "loop"
    /\ seen.records < MaxRecords
    /\ \E rec \in Records :
         /\ arun' = EvalScored(arun, rec, ScoredRecords[rec])
         /\ r' = Some(rec)
         /\ seen' = SeenAfter(seen, rec)
    /\ UNCHANGED <<pc, ametrics, parser_vars, image_vars, pair_vars, script_vars>>

\* the end of the loop: the scores and the returned dictionary
AnatomyReturn ==
    /\ pc = "loop"
    /\ pc' = "done"
    /\ ametrics' = Some(ArunMetrics(arun))
    /\ UNCHANGED <<arun, r, seen, parser_vars, image_vars, pair_vars, script_vars>>

AnatomyNext == AnatomyRecord \/ AnatomyReturn

SpecAnatomy == AnatomyInit /\ [][AnatomyNext]_vars

---------------------------------------------------------------------------
(* eval_run three times over: on a run file whose expected answers are all *)
(* 0 or 1, on the run file that differs only in its expected answers, and   *)
(* on the same run file with another centre map                            *)

PairInit ==
    /\ pc = "loop"
    /\ AnatomyIdle /\ ParserIdle /\ ImageIdle /\ PairIdle /\ ScriptIdle

\* one iteration of the loop, in each of the three evaluations
PairRecord ==
    /\ pc = "loop"
    /\ seen.records < MaxRecords
    /\ \E rec \in Records, e2 \in {Some(0), Some(1)} :
         LET rec2 == [rec EXCEPT !.expected_answer = e2]
         IN  /\ rec.expected_answer # None
             /\ arun' = EvalScored(arun, rec, ScoredRecords[rec])
             /\ arun_exp' = EvalScored(arun_exp, rec2, ScoredRecords[rec2])
             /\ arun_cm' = EvalScored(arun_cm, rec, ScoredRecordsAlt[rec])
             /\ seen' = SeenAfter(seen, rec)
    /\ UNCHANGED <<pc, r, ametrics, parser_vars, image_vars, script_vars>>

\* the end of the three loops
PairReturn ==
    /\ pc = "loop"
    /\ pc' = "done"
    /\ ametrics' = Some(ArunMetrics(arun))
    /\ UNCHANGED <<arun, r, seen, parser_vars, image_vars, pair_vars, script_vars>>

PairNext == PairRecord \/ PairReturn

SpecPair == PairInit /\ [][PairNext]_vars

---------------------------------------------------------------------------
(* Either evaluator on a run file: evaluate_run alone, or eval_run alone *)

EvaluatorsInit ==
    /\ pc = "loop"
    /\ ImageIdle /\ AnatomyIdle /\ ParserIdle /\ PairIdle /\ ScriptIdle

\* a step of evaluate_run while eval_run has not run, or the reverse
EvaluatorsNext ==
    \/ AnatomyIdle /\ ImageNext
    \/ ImageIdle /\ AnatomyNext

SpecEvaluators == EvaluatorsInit /\ [][EvaluatorsNext]_vars

---------------------------------------------------------------------------
(* statistics.mean, statistics.stdev and the two aggregators.  A float is the
   fraction <<numerator, denominator>> it stands for, NaN is <<0, 0>>.  A standard
   deviation is held as its square, the sample variance, which is a fraction;
   0.0 is its own square. *)

RECURSIVE GCD(_, _)
GCD(a, b) == IF b = 0 THEN a ELSE GCD(b, a % b)

\* a fraction in lowest terms
Lowest(x) ==
    LET n == IF x[1] < 0 THEN 0 - x[1] ELSE x[1]
        g == GCD(n, x[2])
    IN  IF g = 0 THEN x ELSE <<x[1] \div g, x[2] \div g>>

\* x + sign * y ; NaN if either is NaN
FracAdd(x, y, sign) ==
    IF x = NaN \/ y = NaN THEN NaN
    ELSE Lowest(<<x[1] * y[2] + sign * y[1] * x[2], x[2] * y[2]>>)

FracMul(x, y) ==
    IF x = NaN \/ y = NaN THEN NaN ELSE Lowest(<<x[1] * y[1], x[2] * y[2]>>)

\* x == y as floats: NaN equals nothing
FracEq(x, y) == x # NaN /\ y # NaN /\ x[1] * y[2] = y[1] * x[2]

RECURSIVE fsum(_)
fsum(vals) ==
    IF vals = <<>> THEN <<0, 1>> ELSE FracAdd(Head(vals), fsum(Tail(vals)), 1)

\* statistics.mean of a non-empty list; on an empty list it raises StatisticsError
mean(vals) == FracMul(fsum(vals), <<1, Len(vals)>>)

\* statistics.stdev of two values or more, as its square.  On a list that holds
\* NaN the outcome depends on the interpreter: Python 3.11 raises AttributeError
\* ('float' object has no attribute 'numerator'), other versions return NaN.
Interpreters == {"stdev of NaN is NaN", "stdev of NaN raises"}

HoldsNaN(vals) == \E i \in 1..Len(vals) : vals[i] = NaN

\* the lists of which stdev is taken and raises
StdevRaises(py, lists) ==
    /\ py = "stdev of NaN raises"
    /\ \E i \in 1..Len(lists) : Len(lists[i]) > 1 /\ HoldsNaN(lists[i])

stdev(vals) ==
    LET mu == mean(vals)
        sq == [i \in 1..Len(vals) |->
                  FracMul(FracAdd(vals[i], mu, -1), FracAdd(vals[i], mu, -1))]
    IN  FracMul(fsum(sq), <<1, Len(vals) - 1>>)

\* the safe_stdev of both scripts
safe_stdev(vals) == IF Len(vals) > 1 THEN stdev(vals) ELSE <<0, 1>>

\* what a call came to: the exception it raised, or the value it returned
Raised(e) == [raised |-> e, returned |-> None]

Returned(v) == [raised |-> "", returned |-> Some(v)]

\* evaluate_run(fp) on the calls of the run file
RECURSIVE EvaluateCalls(_, _)
EvaluateCalls(st, calls) ==
    IF calls = <<>> THEN st
    ELSE EvaluateCalls(EvaluateParsed(st, Head(calls), ParsedCalls[Head(calls)]),
                       Tail(calls))

evaluate_run(calls) == RunMetrics(EvaluateCalls(RunStart, calls))

\* eval_run(p, centre_map) on the records of the run file
RECURSIVE EvalRecords(_, _)
EvalRecords(st, recs) ==
    IF recs = <<>> THEN st
    ELSE EvalRecords(EvalScored(st, Head(recs), ScoredRecords[Head(recs)]), Tail(recs))

eval_run(recs) == ArunMetrics(EvalRecords(ArunStart, recs))

\* [d[key] for d in dicts]
Column(dicts, key) == [i \in 1..Len(dicts) |-> dicts[i][key]]

process_runs(run_files, py) ==
    LET run_metrics == [i \in 1..Len(run_files) |-> evaluate_run(run_files[i])]
        accs == Column(run_metrics, "accuracy")
        f1s  == Column(run_metrics, "f1")
    IN  IF accs = <<>> THEN Raised("StatisticsError")
        ELSE IF StdevRaises(py, <<accs, f1s>>) THEN Raised("AttributeError")
        ELSE Returned([aggregated |-> [accuracy_mean |-> mean(accs),
                                       accuracy_std  |-> safe_stdev(accs),
                                       f1_mean       |-> mean(f1s),
                                       f1_std        |-> safe_stdev(f1s)],
                       run_metrics |-> run_metrics])

aggregate_runs(run_results, py) ==
    LET m(lst)  == IF lst # <<>> THEN mean(lst) ELSE NaN
        sd(lst) == IF lst # <<>> THEN safe_stdev(lst) ELSE NaN
        a_accs == Column(run_results, "anat_acc")
        a_f1s  == Column(run_results, "anat_f1")
        i_accs == Column(run_results, "img_acc")
        i_f1s  == Column(run_results, "img_f1")
    IN  IF StdevRaises(py, <<a_accs, a_f1s, i_accs, i_f1s>>)
        THEN Raised("AttributeError")
        ELSE
        Returned([agg |-> [anat_acc_mean |-> m(a_accs), anat_acc_std |-> sd(a_accs),
                           anat_f1_mean  |-> m(a_f1s),  anat_f1_std  |-> sd(a_f1s),
                           img_acc_mean  |-> m(i_accs), img_acc_std  |-> sd(i_accs),
                           img_f1_mean   |-> m(i_f1s),  img_f1_std   |-> sd(i_f1s)],
                  runs |-> run_results])

---------------------------------------------------------------------------
(* The aggregators on at most MaxRuns runs *)

MaxRuns == 2

\* the sequences over S of at most n elements
RECURSIVE SeqsUpTo(_, _)
SeqsUpTo(S, n) ==
    IF n = 0 THEN {<<>>}
    ELSE LET shorter == SeqsUpTo(S, n - 1)
         IN  shorter \cup {Append(t, x) : t \in shorter, x \in S}

\* run files of the image script: no call, a right one, a wrong one, one of each
RunFiles ==
    LET c(a, e) == [model_answer |-> a, question |-> Q_above, entire_prompt |-> <<>>,
                    expected_answer |-> e]
    IN  {<<>>, <<c(A_1, 1)>>, <<c(A_0, 1)>>, <<c(A_1, 1), c(A_hard_to_tell, 0)>>}

\* run files of the anatomy script: no record, a record of an image with centres,
\* a record of an image without, two records
RecordFiles ==
    LET rec(f, q, e) == [file_name |-> f, question |-> q, model_answer |-> A_1,
                         entire_prompt |-> <<>>, expected_answer |-> e,
                         object1_name |-> Some(N_spleen), object2_name |-> Some(N_liver)]
    IN  {<<>>, <<rec("img_a", Q_left_of, Some(1))>>, <<rec("img_c", Q_left_of, Some(1))>>,
         <<rec("img_a", Q_left_of, Some(0)), rec("img_a", Q_right_of, Some(1))>>}

AggregateInit ==
    /\ pc = "input"
    /\ \E fs \in SeqsUpTo(RunFiles, MaxRuns), ps \in SeqsUpTo(RecordFiles, MaxRuns) :
         aggregation = [AggregationIdle EXCEPT !.run_files = fs, !.run_paths = ps]
    /\ amain = None /\ driver = None /\ canon = None /\ imain = None
    /\ ParserIdle /\ ImageIdle /\ AnatomyIdle /\ PairIdle

\* res = process_runs(run_paths) of the image script
ProcessRuns ==
    /\ pc = "input"
    /\ aggregation.res = None
    /\ \E py \in Interpreters :
         aggregation' =
           [aggregation EXCEPT !.res = Some(process_runs(aggregation.run_files, py))]
    /\ UNCHANGED <<pc, amain, driver, canon, imain,
                   parser_vars, image_vars, anatomy_vars, pair_vars>>

\* run_results = [eval_run(p, centre_map) for p in run_paths]
\* agg_res = aggregate_runs(run_results)
AggregateRuns ==
    /\ pc = "input"
    /\ aggregation.agg_res = None
    /\ LET run_results == [i \in 1..Len(aggregation.run_paths) |->
                               eval_run(aggregation.run_paths[i])]
       IN  \E py \in Interpreters :
             aggregation' =
               [aggregation EXCEPT !.agg_res = Some(aggregate_runs(run_results, py))]
    /\ UNCHANGED <<pc, amain, driver, canon, imain,
                   parser_vars, image_vars, anatomy_vars, pair_vars>>

AggregateNext == ProcessRuns \/ AggregateRuns

SpecAggregate == AggregateInit /\ [][AggregateNext]_vars

---------------------------------------------------------------------------
(* main() of the anatomy script.  A path is written as the name of its file:
   every path is os.path.join(answer_files_dir, f) of a name f of the directory. *)

\* the characters of the file names, in code point order
CodePoints ==
    <<".", "0", "1", "2", "3", "4", "5", "6", "7", "8", "9",
      "A", "B", "C", "D", "E", "F", "G", "H", "I", "J", "K", "L", "M",
      "N", "O", "P", "Q", "R", "S", "T", "U", "V", "W", "X", "Y", "Z", "_",
      "a", "b", "c", "d", "e", "f", "g", "h", "i", "j", "k", "l", "m",
      "n", "o", "p", "q", "r", "s", "t", "u", "v", "w", "x", "y", "z">>

ord == [c \in {CodePoints[i] : i \in DOMAIN CodePoints} |->
           CHOOSE i \in DOMAIN CodePoints : CodePoints[i] = c]

\* a < b of two strings
RECURSIVE StrLess(_, _)
StrLess(a, b) ==
    IF b = <<>> THEN FALSE
    ELSE IF a = <<>> THEN TRUE
    ELSE IF Head(a) = Head(b) THEN StrLess(Tail(a), Tail(b))
    ELSE ord[Head(a)] < ord[Head(b)]

\* sorted(paths) of distinct strings
RECURSIVE sorted(_)
sorted(paths) ==
    IF paths = {} THEN <<>>
    ELSE LET least == CHOOSE x \in paths : \A y \in paths \ {x} : StrLess(x, y)
         IN  <<least>> \o sorted(paths \ {least})

S_json == <<".", "j", "s", "o", "n">>

S_run == <<"_", "r", "u", "n", "_">>

S_Result == <<"R", "e", "s", "u", "l", "t", "_">>

\* f.endswith(".json") and not f.startswith("Result_")
IsRunJson(f) == MatchAt(f, Len(f) - Len(S_json) + 1, S_json) /\ ~MatchAt(f, 1, S_Result)

\* the class \d over the characters of the file names
DigitClass == {"0", "1", "2", "3", "4", "5", "6", "7", "8", "9"}

\* a name the pattern takes for a run file although it is none: every name
\* that ends in .json
RunMatch_any_json(f) ==
    IF MatchAt(lower(f), Len(f) - Len(S_json) + 1, S_json)
    THEN Some(SubSeq(f, 1, Len(f) - Len(S_json))) ELSE None

\* re.compile(r'^(.*)_run_(\d+)\.json$', re.I).match(f): group 1, or None
RunMatch(f) ==
    LET lf == lower(f)
        e  == Len(f) - Len(S_json)                 \* where the digits end
        d  == SkipClassBack(lf, e, DigitClass)     \* where "_run_" ends
    IN  IF /\ MatchAt(lf, e + 1, S_json)
           /\ d < e
           /\ MatchAt(lf, d - Len(S_run) + 1, S_run)
        THEN Some(SubSeq(f, 1, d - Len(S_run))) ELSE None

\* grouped.setdefault(base, []).append(fp), grouped held in insertion order
GroupAppend(grouped, base, fp) ==
    IF \E k \in 1..Len(grouped) : grouped[k].base = base
    THEN [k \in 1..Len(grouped) |->
            IF grouped[k].base = base
            THEN [grouped[k] EXCEPT !.run_paths = @ \cup {fp}] ELSE grouped[k]]
    ELSE Append(grouped, [base |-> base, run_paths |-> {fp}])

S_Results == <<"R", "e", "s", "u", "l", "t", "s">>

\* "_Anatomy-vs-Image_Left-Right-Questions.xlsx"
S_Anatomy ==
    <<"_", "A", "n", "a", "t", "o", "m", "y", "-", "v", "s", "-", "I", "m", "a", "g",
      "e", "_", "L", "e", "f", "t", "-", "R", "i", "g", "h", "t", "-", "Q", "u", "e",
      "s", "t", "i", "o", "n", "s", ".", "x", "l", "s", "x">>

\* out_name of a group
OutName(grouped, base) ==
    IF Len(grouped) = 1 THEN S_Results \o S_Anatomy
    ELSE S_Results \o <<"_">> \o base \o S_Anatomy

MaxFiles == 3

\* names a directory of answers may hold
FileNames ==
    { b \o sep \o n \o S_json :
        b \in {<<"a">>, <<"b">>},
        sep \in {S_run, <<"_", "R", "U", "N", "_">>},
        n \in {<<"0">>, <<"2">>, <<"1", "0">>, <<"x">>} }
    \cup { <<"a">> \o S_json,
           S_Result \o <<"a">> \o S_run \o <<"0">> \o S_json,
           <<"a">> \o S_run \o <<"1">> \o <<".", "J", "S", "O", "N">>,
           <<"n", "o", "t", "e", "s", ".", "t", "x", "t">> }

\* the directories of at most n of the names
RECURSIVE Listings(_)
Listings(n) ==
    IF n = 0 THEN {{}}
    ELSE LET fewer == Listings(n - 1)
         IN  fewer \cup {l \cup {f} : l \in fewer, f \in FileNames}

MainInit ==
    /\ pc = "main"
    /\ \E isdir \in BOOLEAN, centres \in BOOLEAN, listing \in Listings(MaxFiles) :
         /\ ~isdir => listing = {}
         /\ amain = [at |-> "start", isdir |-> isdir, centres |-> centres,
                  listing |-> listing,
                  todo |-> {}, grouped |-> <<>>, evaluated |-> <<>>,
                  written |-> {}, error |-> ""]
    /\ aggregation = AggregationIdle /\ driver = None /\ canon = None /\ imain = None
    /\ ParserIdle /\ ImageIdle /\ AnatomyIdle /\ PairIdle

\* raise ...
Fail(st, e) == [st EXCEPT !.at = "failed", !.error = e]

\* the checks of the answers directory and of the centres file, and the
\* collection of json_files
MainCollect ==
    /\ amain.at = "start"
    /\ LET json_files == {f \in amain.listing : IsRunJson(f)}
       IN  amain' =
             IF ~amain.isdir \/ ~amain.centres THEN Fail(amain, "FileNotFoundError")
             ELSE IF json_files = {} THEN Fail(amain, "RuntimeError")
             ELSE [amain EXCEPT !.at = "group", !.todo = json_files]
    /\ UNCHANGED <<pc, aggregation, driver, canon, imain,
                   parser_vars, image_vars, anatomy_vars, pair_vars>>

\* one iteration of "for fp in json_files", in the order os.listdir gave
MainGroup ==
    /\ amain.at = "group"
    /\ \E fp \in amain.todo :
         LET m == RunMatch(fp)
         IN  amain' =
               IF m = None THEN Fail(amain, "RuntimeError")
               ELSE [amain EXCEPT
                       !.todo = @ \ {fp},
                       !.grouped = GroupAppend(@, m[1], fp),
                       !.at = IF amain.todo = {fp} THEN "evaluate" ELSE "group"]
    /\ UNCHANGED <<pc, aggregation, driver, canon, imain,
                   parser_vars, image_vars, anatomy_vars, pair_vars>>

\* one iteration of "for base_name, run_paths in grouped.items()": the runs are
\* evaluated in sorted order and the workbook of the group is written
MainEvaluate ==
    /\ amain.at = "evaluate"
    /\ LET k == Cardinality(amain.written) + 1
           run_paths == sorted(amain.grouped[k].run_paths)
           out_name == OutName(amain.grouped, amain.grouped[k].base)
       IN  amain' =
             [amain EXCEPT
                !.evaluated = @ \o run_paths,
                !.written = @ \cup {[out_name |-> out_name, runs |-> run_paths]},
                !.at = IF k = Len(amain.grouped) THEN "done" ELSE "evaluate"]
    /\ UNCHANGED <<pc, aggregation, driver, canon, imain,
                   parser_vars, image_vars, anatomy_vars, pair_vars>>

MainNext == MainCollect \/ MainGroup \/ MainEvaluate

SpecMain == MainInit /\ [][MainNext]_vars

\* main() runs to its end or to its raise
SpecMainFair == SpecMain /\ WF_vars(MainNext)

---------------------------------------------------------------------------
(* main() of the image script, on the same directories *)

\* f.lower().endswith(".json")
IsJson(f) == MatchAt(lower(f), Len(f) - Len(S_json) + 1, S_json)

\* "_Image.xlsx"
S_Image == <<"_", "I", "m", "a", "g", "e", ".", "x", "l", "s", "x">>

\* out_name of a group of the image script
ImageOutName(grouped, base) ==
    IF Len(grouped) = 1 THEN S_Results \o S_Image
    ELSE S_Results \o <<"_">> \o base \o S_Image

\* the state in which main() of the image script starts on a directory
ImageMainStart(isdir, listing) ==
    [at |-> "start", isdir |-> isdir, listing |-> listing, todo |-> {},
     grouped |-> <<>>, evaluated |-> <<>>, written |-> {}, error |-> ""]

\* the check of the answers directory and the collection of json_files
ImageMainCollect ==
    /\ imain # None /\ imain.at = "start"
    /\ LET json_files == {f \in imain.listing : IsJson(f)}
       IN  imain' =
             IF ~imain.isdir THEN Fail(imain, "FileNotFoundError")
             ELSE IF json_files = {} THEN Fail(imain, "RuntimeError")
             ELSE [imain EXCEPT !.at = "group", !.todo = json_files]
    /\ UNCHANGED <<pc, aggregation, amain, driver, canon,
                   parser_vars, image_vars, anatomy_vars, pair_vars>>

\* one iteration of "for fp in files" of group_by_base: a name the pattern does
\* not match gives None, and None.group(1) raises AttributeError
ImageMainGroup ==
    /\ imain # None /\ imain.at = "group"
    /\ \E fp \in imain.todo :
         LET m == RunMatch(fp)
         IN  imain' =
               IF m = None THEN Fail(imain, "AttributeError")
               ELSE [imain EXCEPT
                       !.todo = @ \ {fp},
                       !.grouped = GroupAppend(@, m[1], fp),
                       !.at = IF imain.todo = {fp} THEN "evaluate" ELSE "group"]
    /\ UNCHANGED <<pc, aggregation, amain, driver, canon,
                   parser_vars, image_vars, anatomy_vars, pair_vars>>

\* one iteration of "for base, run_paths in grouped.items()": process_runs
\* evaluates the runs in sorted order and the workbook of the group is saved
ImageMainEvaluate ==
    /\ imain # None /\ imain.at = "evaluate"
    /\ LET k == Cardinality(imain.written) + 1
           run_paths == sorted(imain.grouped[k].run_paths)
           out_name == ImageOutName(imain.grouped, imain.grouped[k].base)
       IN  imain' =
             [imain EXCEPT
                !.evaluated = @ \o run_paths,
                !.written = @ \cup {[out_name |-> out_name, runs |-> run_paths]},
                !.at = IF k = Len(imain.grouped) THEN "done" ELSE "evaluate"]
    /\ UNCHANGED <<pc, aggregation, amain, driver, canon,
                   parser_vars, image_vars, anatomy_vars, pair_vars>>

ImageMainNext == ImageMainCollect \/ ImageMainGroup \/ ImageMainEvaluate

\* the two scripts run on the same directory, the centres file present
MainsInit ==
    /\ pc = "main"
    /\ \E listing \in Listings(MaxFiles) :
         /\ imain = ImageMainStart(TRUE, listing)
         /\ amain = [at |-> "start", isdir |-> TRUE, centres |-> TRUE,
                     listing |-> listing, todo |-> {}, grouped |-> <<>>,
                     evaluated |-> <<>>, written |-> {}, error |-> ""]
    /\ aggregation = AggregationIdle /\ driver = None /\ canon = None
    /\ ParserIdle /\ ImageIdle /\ AnatomyIdle /\ PairIdle

MainsNext == MainNext \/ ImageMainNext

SpecMains == MainsInit /\ [][MainsNext]_vars

---------------------------------------------------------------------------
(* The inference drivers: the loops over experiments, sub-experiments and runs
   of gpt4o.py and of all_experiments_deepseek.py *)

\* for i in range(3)
Runs == 3

\* experiment_plan of an experiment: the sub-experiments and their qa files
experiment_plan(exp) ==
    IF exp = "RQ1"
    THEN << [sub_experiment |-> "sub_experiment_1", qa |-> "qa.json"] >>
    ELSE << [sub_experiment |-> "sub_experiment_1", qa |-> "qa_numbers.json"],
            [sub_experiment |-> "sub_experiment_2", qa |-> "qa_letters.json"],
            [sub_experiment |-> "sub_experiment_3", qa |-> "qa_dots.json"] >>

\* f"{selected_qa.replace('.json', '')}_{mo_file_name_appendix}_run_{i}.json" under
\* the results directory, as the parts the name is made of; N is the number of
\* images, so the appendix is always 'all_images'; the second driver puts
\* "_add" ahead of "_run"
save_name(script, selected_qa, i) ==
    [dir |-> "results", qa |-> selected_qa, appendix |-> "all_images",
     add |-> script = "deepseek", run |-> i]

\* the experiments selected: any of the four, each once, in any order
Selections ==
    LET E == {"RQ1", "RQ2", "RQ3", "AS"}
    IN  UNION { {sel \in [1..n -> E] : \A a, b \in 1..n : sel[a] = sel[b] => a = b} :
                n \in 0..Cardinality(E) }

\* the images of a qa file
ImageCounts == {0, 1, 2}

DriverInit ==
    /\ pc = "driver"
    /\ \E script \in {"gpt4o", "deepseek"}, sel \in Selections, n \in ImageCounts :
         driver = [script |-> script, experiments |-> sel, images |-> n,
                   at |-> IF sel = <<>> THEN "done" ELSE "run",
                   exp |-> 1, sub |-> 1, i |-> 0,
                   files |-> {}, saved |-> <<>>, error |-> ""]
    /\ aggregation = AggregationIdle /\ amain = None /\ canon = None /\ imain = None
    /\ ParserIdle /\ ImageIdle /\ AnatomyIdle /\ PairIdle

\* the position after run i of sub-experiment sub of experiment exp
DriverAdvance(d) ==
    IF d.i + 1 < Runs THEN [d EXCEPT !.i = @ + 1]
    ELSE IF d.sub < Len(experiment_plan(d.experiments[d.exp]))
         THEN [d EXCEPT !.i = 0, !.sub = @ + 1]
    ELSE IF d.exp < Len(d.experiments)
         THEN [d EXCEPT !.i = 0, !.sub = 1, !.exp = @ + 1]
    ELSE [d EXCEPT !.at = "done"]

\* one iteration of "for i in range(3)": the calls for every image, then the
\* save.  With one image there is no other image and additional_question[0]
\* raises TypeError; the second driver saves under RESULTS_BASE, a name it
\* never binds, and raises NameError.
DriverRun ==
    /\ driver.at = "run"
    /\ LET exp  == driver.experiments[driver.exp]
           task == experiment_plan(exp)[driver.sub]
           name == save_name(driver.script, task.qa, driver.i)
           file == [name |-> name,
                    dataset_results |-> <<exp, task.sub_experiment, driver.i>>]
       IN  driver' =
             IF driver.images = 1
             THEN [driver EXCEPT !.at = "failed", !.error = "TypeError"]
             ELSE IF driver.script = "deepseek"
             THEN [driver EXCEPT !.at = "failed", !.error = "NameError"]
             ELSE DriverAdvance(
                    [driver EXCEPT
                       !.files = {f \in @ : f.name # name} \cup {file},
                       !.saved = Append(@, file.dataset_results)])
    /\ UNCHANGED <<pc, aggregation, amain, canon, imain,
                   parser_vars, image_vars, anatomy_vars, pair_vars>>

DriverNext == DriverRun

SpecDriver == DriverInit /\ [][DriverNext]_vars

---------------------------------------------------------------------------
(* canon_name on names of at most MaxNameAtoms fragments *)

MaxNameAtoms == 3

\* fragments of structure names: side words, a structure, whitespace, an underscore
NameAtoms ==
    { <<"l", "e", "f", "t">>, <<"R", "i", "g", "h", "t">>,
      <<"K", "i", "d", "n", "e", "y">>, <<" ">>, <<"\t">>, <<"_">> }

RECURSIVE Names(_)
Names(n) ==
    IF n = 0 THEN {<<>>}
    ELSE LET shorter == Names(n - 1)
         IN  shorter \cup {s \o a : s \in shorter, a \in NameAtoms}

CanonInit ==
    /\ pc = "input"
    /\ \E name \in Names(MaxNameAtoms) :
         canon = [name |-> name, once |-> None, twice |-> None]
    /\ aggregation = AggregationIdle /\ amain = None /\ driver = None /\ imain = None
    /\ ParserIdle /\ ImageIdle /\ AnatomyIdle /\ PairIdle

\* k = canon_name(obj)
Canon ==
    /\ canon.once = None
    /\ canon' = [canon EXCEPT !.once = Some(canon_name(canon.name))]
    /\ UNCHANGED <<pc, aggregation, amain, driver, imain,
                   parser_vars, image_vars, anatomy_vars, pair_vars>>

\* canon_name of a name that canon_name returned
CanonAgain ==
    /\ canon.once # None /\ canon.twice = None
    /\ canon' = [canon EXCEPT !.twice = Some(canon_name(canon.once[1]))]
    /\ UNCHANGED <<pc, aggregation, amain, driver, imain,
                   parser_vars, image_vars, anatomy_vars, pair_vars>>

CanonNext == Canon \/ CanonAgain

SpecCanon == CanonInit /\ [][CanonNext]_vars

---------------------------------------------------------------------------
(* Properties of parse_model_answer *)

\* the three labels a parse result may carry
Labels == {None, Some(0), Some(1)}

\* C1: parse_model_answer is total: for every answer, question and prompt, in
\* both scripts, it returns a pair whose label is 0, 1 or None and whose
\* residual text is None or a string.
C1_ParserTotal ==
    pc = "parsed" =>
        /\ Len(result) = 2 /\ Len(result_anatomy) = 2
        /\ result[1] \in Labels /\ result_anatomy[1] \in Labels
        /\ Len(result[2]) <= 1 /\ Len(result_anatomy[2]) <= 1

\* an answer with an unbalanced bracket, a prompt that is echoed: no label
C1_Witness ==
    /\ pc = "parsed"
    /\ ans = <<"(", "l", "e", "f", "t", "\n">>
    /\ question = Q_above /\ prompt = P_two_lines
    /\ result = <<None, Some(<<"(">>)>>
    /\ result_anatomy = result

\* the tokens an answer may consist of
AnswerTokens == {W_0, W_1, W_yes, W_no}

\* the label a token stands for
TokenMeaning(tok) == IF tok \in {W_1, W_yes} THEN 1 ELSE 0

\* whitespace, quotes, opening brackets and full stops
WrapBefore == {" ", "\n", "\t", "'", "\"", "(", "[", "{", "."}

\* whitespace, quotes, closing brackets and full stops
WrapAfter == {" ", "\n", "\t", "'", "\"", ")", "]", "}", "."}

\* a is the token tok, in any letter case, with wrapping characters around it
SingleToken(a, tok) ==
    LET la == lower(a)
    IN  \E i \in 1..Len(a) :
            /\ MatchAt(la, i, tok)
            /\ \A j \in 1..(i - 1) : a[j] \in WrapBefore
            /\ \A j \in (i + Len(tok))..Len(a) : a[j] \in WrapAfter

\* C2: an answer that is a single 0, 1, yes or no, in any letter case, with
\* whitespace, quotes, brackets or full stops around it, gets the label of the
\* token (1 for 1/yes, 0 for 0/no), whatever the question and the prompt are.
C2_SingleTokenLabel ==
    pc = "parsed" =>
        \A tok \in AnswerTokens :
            SingleToken(ans, tok) => result[1] = Some(TokenMeaning(tok))

\* "(Yes." with a left-of question and the two-line prompt is labelled 1
C2_Witness ==
    /\ pc = "parsed"
    /\ ans = <<"(", "Y", "e", "s", ".">>
    /\ question = Q_left_of /\ prompt = P_two_lines
    /\ result = <<Some(1), None>>

Letters == DOMAIN ToLower \cup {ToLower[c] : c \in DOMAIN ToLower}

Digits == {"0", "1", "2", "3", "4", "5", "6", "7", "8", "9"}

\* the words of s, lower-cased: the maximal runs of letters and digits
WordsOf(s) ==
    { SubSeq(lower(s), i, j) : <<i, j>> \in
        { x \in (1..Len(s)) \X (1..Len(s)) :
            /\ x[1] <= x[2]
            /\ \A k \in x[1]..x[2] : s[k] \in Letters \cup Digits
            /\ (x[1] = 1 \/ s[x[1] - 1] \notin Letters \cup Digits)
            /\ (x[2] = Len(s) \/ s[x[2] + 1] \notin Letters \cup Digits) } }

\* a contains, for a direction word of q, that word or its opposite
DirectionMatches(a, q) ==
    \E k \in 1..Len(DirectionPairs) :
        /\ Contains(lower(q), DirectionPairs[k][1])
        /\ \/ Contains(lower(a), DirectionPairs[k][1])
           \/ Contains(lower(a), DirectionPairs[k][2])

\* C3: an answer with no word 0, 1, yes or no and no direction word matching
\* the question is unparseable, also when its first or last word begins or
\* ends with the letters of a token.
C3_NoTokenUnparseable ==
    pc = "parsed" =>
        (WordsOf(ans) \cap AnswerTokens = {} /\ ~DirectionMatches(ans, question)
            => result[1] = None)

\* what may stand between a keyword and the space before the digit
PhraseLinks == {<<>>, <<":">>, <<" ", "i", "s">>}

\* text states digit d with a keyword-anchored phrase: a keyword, then nothing,
\* ":" or " is", then a space and the digit
StatesDigit(text, d) ==
    LET lt == lower(text)
    IN  \E i \in 1..Len(lt) :
            \E k \in 1..Len(KeywordAlt) :
                /\ MatchAt(lt, i, KeywordAlt[k])
                /\ \E sep \in PhraseLinks :
                       MatchAt(lt, i + Len(KeywordAlt[k]), sep \o <<" ">> \o d)

\* q contains a direction word
HasDirectionWord(q) ==
    \E w \in {W_above, W_below, W_left, W_right} : Contains(lower(q), w)

\* the label of a digit
DigitLabel(d) == IF d = W_1 THEN 1 ELSE 0

\* the other digit
OtherDigit(d) == IF d = W_1 THEN W_0 ELSE W_1

\* the statement that a keyword-anchored digit always decides: every answer
\* with such a phrase, for a question with a direction word, gets that digit
C4_KeywordAlwaysDecides ==
    pc = "parsed" =>
        \A d \in {W_0, W_1} :
            StatesDigit(ans, d) /\ HasDirectionWord(question)
                => result[1] = Some(DigitLabel(d))

\* the trimmed answer t has a 0/1/yes/no match right after leading wrapping
\* characters, or right before trailing ones
BoundaryMatch(t) ==
    LET lt == lower(t)
    IN  \E i \in 1..Len(t), tok \in AnswerTokens :
            /\ MatchAt(lt, i, tok)
            /\ \/ \A j \in 1..(i - 1) : t[j] \in WrapBefore
               \/ \A j \in (i + Len(tok))..Len(t) : t[j] \in WrapAfter

\* a keyword, then nothing, ":" or " is", then any run of whitespace, then d
AnchorsDigit(text, d) ==
    LET lt == lower(text)
    IN  \E i \in 1..Len(lt) :
            \E k \in 1..Len(KeywordAlt) :
                /\ MatchAt(lt, i, KeywordAlt[k])
                /\ \E sep \in PhraseLinks :
                       LET from == i + Len(KeywordAlt[k]) + Len(sep)
                       IN  /\ MatchAt(lt, i + Len(KeywordAlt[k]), sep)
                           /\ \E j \in from..Len(lt) :
                                  /\ \A x \in from..(j - 1) : lt[x] \in WS
                                  /\ lt[j] = d[1]

\* a spatial tier decides: the short-sentence check on the trimmed answer, or
\* the check on the first clause of the prompt-stripped text
SpatialDecides(a, q, p) ==
    LET t == strip(a)
        m == FirstClause(Cleaned(t, p))
    IN  \/ ShortSentence(t) /\ DirectionMatches(t, q)
        \/ m # None /\ DirectionMatches(m[1], q)

\* C4: a keyword-anchored digit decides when no earlier tier does: for an answer
\* whose prompt-stripped text states digit D and anchors no other digit, with
\* a question that contains a direction word, no start or end token match, and
\* no direction word where the two spatial tiers look, the label is D.
C4_KeywordDecidesLast ==
    pc = "parsed" =>
        LET cleaned == Cleaned(strip(ans), prompt)
        IN  \A d \in {W_0, W_1} :
                ( /\ StatesDigit(cleaned, d)
                  /\ ~AnchorsDigit(cleaned, OtherDigit(d))
                  /\ HasDirectionWord(question)
                  /\ ~BoundaryMatch(strip(ans))
                  /\ ~SpatialDecides(ans, question, prompt) )
                    => result[1] = Some(DigitLabel(d))

\* "answer is 0", a line break and the echoed prompt line "left", for a
\* left-of question: the keyword tier labels it 0
C4_Witness ==
    /\ pc = "parsed"
    /\ ans = <<"a", "n", "s", "w", "e", "r", " ", "i", "s", " ", "0", "\n",
               "l", "e", "f", "t">>
    /\ question = Q_left_of /\ prompt = P_two_lines
    /\ result = <<Some(0), Some(<<"a", "n", "s", "w", "e", "r", " ", "i", "s", " ",
                                  "0", "\n">>)>>

---------------------------------------------------------------------------
(* Properties of evaluate_run *)

Last(s) == s[Len(s)]

\* C5: evaluate_run gives every record with an unparseable answer the
\* prediction 1 - expected_answer, counts it in incorrect and in unsure (by
\* one each) and keeps it in the two label lists; unsure never exceeds
\* incorrect; the run of one unparseable record with expected 1 returns
\* prediction 0, correct 0, incorrect 1, unsure 1 and accuracy 0.
C5_UnparseableScoredWrong ==
    /\ [](run.unsure <= run.incorrect)
    /\ []( ( /\ pc = "done" /\ Len(run.targs) = 1
             /\ ParsedCalls[call[1]] = None /\ call[1].expected_answer = 1 )
           => /\ run.preds = <<0>>
              /\ metrics[1].correct_count = 0 /\ metrics[1].incorrect_count = 1
              /\ metrics[1].unsure_count = 1 /\ metrics[1].accuracy = <<0, 1>> )
    /\ [][ ( /\ run' # run
             /\ ParsedCalls[call'[1]] = None )
           => /\ run'.preds = Append(run.preds, 1 - call'[1].expected_answer)
              /\ run'.targs = Append(run.targs, call'[1].expected_answer)
              /\ run'.incorrect = run.incorrect + 1
              /\ run'.unsure = run.unsure + 1
              /\ run'.correct = run.correct ]_vars

\* the run of the one record "I think it's hard to tell." with expected 1
C5_Witness ==
    /\ pc = "done"
    /\ call = Some([model_answer |-> A_hard_to_tell, question |-> Q_left_of,
                    entire_prompt |-> P_two_lines, expected_answer |-> 1])
    /\ run = [preds |-> <<0>>, targs |-> <<1>>, correct |-> 0, incorrect |-> 1,
              unsure |-> 1]
    /\ metrics[1].accuracy = <<0, 1>>

---------------------------------------------------------------------------
(* Properties of eval_run *)

\* the anatomy-truth lists and counters
AnatomyPart(st) ==
    <<st.anat_preds, st.anat_targs, st.anat_corr, st.anat_wrong, st.anat_tot>>

\* the image-truth lists and counters
ImagePart(st) ==
    <<st.img_preds, st.img_targs, st.img_corr, st.img_wrong, st.img_tot>>

\* the step that handles one more record
RecordStep == seen'.records = seen.records + 1

\* C6: a record with an unparseable answer and an expected answer of 0 or 1
\* that enters the anatomy tally increments anat_incorrect and leaves
\* anat_correct alone.
C6_UnparseableAnatomyWrong ==
    [][ ( /\ RecordStep
          /\ r'[1].expected_answer # None
          /\ ScoredRecords[r'[1]].parsed = None
          /\ arun'.anat_tot = arun.anat_tot + 1 )
        => /\ arun'.anat_wrong = arun.anat_wrong + 1
           /\ arun'.anat_corr = arun.anat_corr ]_vars

\* the two structures of rec resolve to coordinates of the centre map
Resolves(rec) ==
    LET names == ObjectNames(rec)
    IN  /\ rec.file_name \in DOMAIN centre_map
        /\ ~Falsy(names[1]) /\ ~Falsy(names[2])
        /\ canon_name(names[1][1]) \in DOMAIN centre_map[rec.file_name]
        /\ canon_name(names[2][1]) \in DOMAIN centre_map[rec.file_name]

\* the x-coordinate of structure number n of rec
XOf(rec, n) == centre_map[rec.file_name][canon_name(ObjectNames(rec)[n][1])][1]

\* C7: for a left/right record whose two structures resolve to coordinates, the
\* anatomy truth is 1 exactly when the question contains " to the left of "
\* and x(object1) > x(object2), or contains " to the right of " and
\* x(object1) < x(object2); it is 0 otherwise, equal coordinates included.
C7_AnatomyTruthFormula ==
    (r # None /\ IsLeftRight(r[1].question) /\ Resolves(r[1])) =>
        LET q  == lower(r[1].question)
            x1 == XOf(r[1], 1)
            x2 == XOf(r[1], 2)
        IN  /\ arun.anat_targs # <<>>
            /\ Last(arun.anat_targs) = 1 <=>
                 \/ Contains(q, S_to_the_left_of) /\ x1 > x2
                 \/ Contains(q, S_to_the_right_of) /\ x1 < x2
            /\ Last(arun.anat_targs) \in {0, 1}

\* liver at x = 120 and spleen at x = 80, "Is the liver to the left of the
\* spleen?", the names taken from the question: the anatomy truth is 1
C7_Witness ==
    /\ r = Some([file_name |-> "img_a", question |-> Q_left_of, model_answer |-> A_1,
                 entire_prompt |-> <<>>, expected_answer |-> Some(0),
                 object1_name |-> Some(N_spleen), object2_name |-> None])
    /\ seen.records = 1
    /\ arun.anat_targs = <<1>>

\* the anatomy truth of rec is unavailable: the image is not in the centre map,
\* a name is missing and the pattern does not match, or a canonical name is
\* missing for the image
Unavailable(rec) ==
    \/ rec.file_name \notin DOMAIN centre_map
    \/ /\ Falsy(rec.object1_name) \/ Falsy(rec.object2_name)
       /\ ObjectSearch(rec.question) = None
    \/ ~Resolves(rec)

\* C8: a left/right record whose anatomy truth is unavailable leaves the
\* anatomy lists and counters unchanged and, its expected_answer being 0 or
\* 1, is counted in the image tally; when every expected_answer is 0 or 1,
\* img_total is the number of left/right records and anat_total <= img_total.
C8_UnavailableFrame ==
    /\ [](seen.no_expected = 0 =>
            /\ arun.img_tot = seen.left_right
            /\ arun.anat_tot <= arun.img_tot)
    /\ [][ ( /\ RecordStep
             /\ IsLeftRight(r'[1].question)
             /\ Unavailable(r'[1]) )
           => /\ AnatomyPart(arun') = AnatomyPart(arun)
              /\ r'[1].expected_answer # None =>
                   /\ arun'.img_tot = arun.img_tot + 1
                   /\ arun'.img_targs = Append(arun.img_targs, r'[1].expected_answer[1])
                   /\ Len(arun'.img_preds) = Len(arun.img_preds) + 1 ]_vars

\* a left-of record of an image the centre map does not hold, after a record
\* that entered both tallies
C8_Witness ==
    /\ r # None
    /\ r[1].file_name = "img_c" /\ r[1].question = Q_left_of
    /\ r[1].expected_answer = Some(1)
    /\ seen = [records |-> 2, left_right |-> 2, no_expected |-> 0]
    /\ arun.img_tot = 2 /\ arun.anat_tot = 1

\* the results eval_run returns of the anatomy-truth tally
AnatomyResults(m) ==
    <<m.anat_correct, m.anat_incorrect, m.anat_total, m.anat_acc, m.anat_f1>>

\* the results eval_run returns of the image-truth tally
ImageResults(m) ==
    <<m.img_correct, m.img_incorrect, m.img_total, m.img_acc, m.img_f1>>

\* C9: two runs that differ only in the records' expected answers return the
\* same anatomy-truth results, and two evaluations that differ only in the
\* centre map return the same image-truth results.
C9_TalliesIndependent ==
    pc = "done" =>
        /\ AnatomyResults(ArunMetrics(arun)) = AnatomyResults(ArunMetrics(arun_exp))
        /\ ImageResults(ArunMetrics(arun)) = ImageResults(ArunMetrics(arun_cm))

\* q asks a left/right relation
AsksLeftRight(q) ==
    \/ Contains(lower(q), <<"l", "e", "f", "t", " ", "o", "f">>)
    \/ Contains(lower(q), <<"r", "i", "g", "h", "t", " ", "o", "f">>)

\* C10: a record contributes to the image tally or to the anatomy tally only
\* if its question asks a left/right relation; an above/below question that
\* names a side-qualified structure contributes to neither.
C10_OnlyLeftRightQuestions ==
    [][ (RecordStep /\ ~AsksLeftRight(r'[1].question))
        => /\ ImagePart(arun') = ImagePart(arun)
           /\ AnatomyPart(arun') = AnatomyPart(arun) ]_vars

---------------------------------------------------------------------------
(* Properties of parse_spatial_relation *)

\* the order in which the pairs are scanned: direction word, opposite word
ScanOrder ==
    << <<"above", "below">>, <<"below", "above">>,
       <<"left", "right">>, <<"right", "left">> >>

\* the characters of a word written as a string
Chars ==
    [w \in {"above", "below", "left", "right"} |->
        CASE w = "above" -> <<"a", "b", "o", "v", "e">>
          [] w = "below" -> <<"b", "e", "l", "o", "w">>
          [] w = "left"  -> <<"l", "e", "f", "t">>
          [] w = "right" -> <<"r", "i", "g", "h", "t">>]

\* s contains word w, whatever the letter case
HasWord(s, w) == Contains(lower(s), Chars[w])

\* pair k decides: its direction word is in the question, and the text holds
\* the direction word or its opposite
PairDecides(k, q, t) ==
    /\ HasWord(q, ScanOrder[k][1])
    /\ HasWord(t, ScanOrder[k][1]) \/ HasWord(t, ScanOrder[k][2])

\* C11: parse_spatial_relation returns, for the first pair in scan order
\* that decides, 1 if the text contains the pair's direction word and 0
\* otherwise; it returns None when no pair decides, so whenever the question
\* holds no direction word; both scripts agree.
C11_FirstDecidingPair ==
    pc = "scanned" =>
        LET K == {k \in 1..Len(ScanOrder) : PairDecides(k, question, ans)}
        IN  /\ spatial[1] = spatial[2]
            /\ IF K = {} THEN spatial[1] = None
               ELSE LET k == CHOOSE x \in K : \A y \in K : x <= y
                    IN  spatial[1] =
                            Some(IF HasWord(ans, ScanOrder[k][1]) THEN 1 ELSE 0)

\* the question names "left" before "above" and the text "left" and "Below":
\* the pair (above, below) decides, with 0
C11_Witness ==
    /\ pc = "scanned"
    /\ question = <<"l", "e", "f", "t", "a", "b", "o", "v", "e">>
    /\ ans = <<"l", "e", "f", "t", "B", "e", "l", "o", "w">>
    /\ spatial = <<Some(0), Some(0)>>

---------------------------------------------------------------------------
(* Properties of the two evaluators on runs without scored records *)

\* C12: a run with zero scored records returns defined metrics: evaluate_run on
\* an empty run returns counts 0, accuracy NaN and F1 0; eval_run returns
\* counts 0 and NaN scores for a tally without scored records, which is the
\* case of both tallies when the run holds no left/right record.
C12_EmptyRunMetrics ==
    /\ (pc = "done" /\ metrics # None /\ run.targs = <<>>) =>
           /\ metrics[1].correct_count = 0 /\ metrics[1].incorrect_count = 0
           /\ metrics[1].unsure_count = 0
           /\ metrics[1].accuracy = NaN
           /\ metrics[1].f1 \in {<<0, 1>>, NaN}
    /\ (pc = "done" /\ ametrics # None) =>
           /\ seen.left_right = 0 => arun.anat_targs = <<>> /\ arun.img_targs = <<>>
           /\ arun.anat_targs = <<>> =>
                  /\ ametrics[1].anat_correct = 0 /\ ametrics[1].anat_incorrect = 0
                  /\ ametrics[1].anat_total = 0
                  /\ ametrics[1].anat_acc = NaN
                  /\ ametrics[1].anat_f1 \in {<<0, 1>>, NaN}
           /\ arun.img_targs = <<>> =>
                  /\ ametrics[1].img_correct = 0 /\ ametrics[1].img_incorrect = 0
                  /\ ametrics[1].img_total = 0
                  /\ ametrics[1].img_acc = NaN
                  /\ ametrics[1].img_f1 \in {<<0, 1>>, NaN}

\* evaluate_run has returned from a run file without calls
C12_Witness ==
    /\ pc = "done"
    /\ run = RunStart
    /\ metrics = Some([accuracy |-> NaN, f1 |-> <<0, 1>>, correct_count |-> 0,
                       incorrect_count |-> 0, unsure_count |-> 0])


---------------------------------------------------------------------------
(* Properties of the aggregators *)

\* the zero a standard deviation of fewer than two runs is said to be
Zero == <<0, 1>>

\* the same float, NaN included
SameFloat(x, y) == (x = NaN /\ y = NaN) \/ FracEq(x, y)

\* what process_runs is said to return for these run files
ImageFewRuns(run_files, out) ==
    /\ out.raised = ""
    /\ LET res == out.returned[1]
       IN  /\ res.aggregated.accuracy_std = Zero
           /\ res.aggregated.f1_std = Zero
           /\ Len(res.run_metrics) = Len(run_files)
           /\ \A i \in 1..Len(run_files) : res.run_metrics[i] = evaluate_run(run_files[i])
           /\ Len(run_files) = 1 =>
                /\ SameFloat(res.aggregated.accuracy_mean, res.run_metrics[1].accuracy)
                /\ SameFloat(res.aggregated.f1_mean, res.run_metrics[1].f1)

\* what aggregate_runs is said to return for these run files
AnatomyFewRuns(run_paths, out) ==
    /\ out.raised = ""
    /\ LET res == out.returned[1]
       IN  /\ res.agg.anat_acc_std = Zero /\ res.agg.anat_f1_std = Zero
           /\ res.agg.img_acc_std = Zero /\ res.agg.img_f1_std = Zero
           /\ Len(res.runs) = Len(run_paths)
           /\ \A i \in 1..Len(run_paths) : res.runs[i] = eval_run(run_paths[i])
           /\ Len(run_paths) = 1 =>
                /\ SameFloat(res.agg.anat_acc_mean, res.runs[1].anat_acc)
                /\ SameFloat(res.agg.anat_f1_mean, res.runs[1].anat_f1)
                /\ SameFloat(res.agg.img_acc_mean, res.runs[1].img_acc)
                /\ SameFloat(res.agg.img_f1_mean, res.runs[1].img_f1)

\* C13: aggregation over fewer than 2 runs returns, without raising, a standard
\* deviation of exactly 0 for accuracy and for F1 and, for one run, a mean equal
\* to that run's metric, in process_runs and in aggregate_runs; the per-run
\* metrics come back unchanged and in input order.
C13_FewRunsZeroStd ==
    /\ (aggregation.res # None /\ Len(aggregation.run_files) < 2)
          => ImageFewRuns(aggregation.run_files, aggregation.res[1])
    /\ (aggregation.agg_res # None /\ Len(aggregation.run_paths) < 2)
          => AnatomyFewRuns(aggregation.run_paths, aggregation.agg_res[1])

---------------------------------------------------------------------------
(* Properties of main() of the anatomy script *)

\* f is <anything>_run_<digits>.json, the letters of either case
WellNamed(f) ==
    LET lf == lower(f)
    IN  \E i \in 1..Len(f) : \E j \in (i + Len(S_run))..(Len(f) - Len(S_json)) :
          /\ SubSeq(lf, i, i + Len(S_run) - 1) = S_run
          /\ \A k \in (i + Len(S_run))..j : lf[k] \in DigitClass
          /\ SubSeq(lf, j + 1, Len(f)) = S_json

\* the centres file is missing, or a candidate of the directory is not well named
BadInput ==
    \/ ~amain.centres
    \/ \E f \in amain.listing : IsRunJson(f) /\ ~WellNamed(f)

\* C14: if the centres file is missing or a candidate JSON file of the answers
\* directory is not named *_run_<digits>.json, main() of the anatomy script
\* raises an error, and no run file has been evaluated and no workbook written
\* at any moment of the run, well-named files in the directory notwithstanding.
C14_AbortsBeforeEvaluation ==
    /\ [](BadInput => /\ amain.evaluated = <<>>
                      /\ amain.written = {}
                      /\ amain.at \in {"start", "group", "failed"})
    /\ (BadInput ~> (amain.at = "failed" /\ amain.error # ""))

\* a run that had grouped a well-named file when it met a badly named one
C14_Witness ==
    /\ amain.at = "failed"
    /\ amain.isdir /\ amain.centres
    /\ amain.grouped # <<>>
    /\ \E f \in amain.listing : IsRunJson(f) /\ ~WellNamed(f)
    /\ amain.evaluated = <<>> /\ amain.written = {}

---------------------------------------------------------------------------
(* Properties of the inference drivers *)

\* the tasks of the selection: experiment and sub-experiment
Tasks(d) ==
    { <<d.experiments[e], experiment_plan(d.experiments[e])[k].sub_experiment>> :
        <<e, k>> \in { x \in (1..Len(d.experiments)) \X (1..3) :
                         x[2] <= Len(experiment_plan(d.experiments[x[1]])) } }

\* C15: over one invocation with any selection of experiments, every
\* (experiment, sub-experiment, run index) triple is saved under its own path:
\* a file once written stays as it was written, and when the driver has
\* finished every task has its 3 run files.
C15_RunsStoredSeparately ==
    /\ [][\A f \in driver.files : f \in driver'.files]_vars
    /\ [](driver.at = "done" =>
            \A t \in Tasks(driver) :
              Cardinality({f \in driver.files :
                             /\ f.dataset_results[1] = t[1]
                             /\ f.dataset_results[2] = t[2]}) = Runs)

---------------------------------------------------------------------------
(* Properties of the tiers of parse_model_answer *)

\* q asks whether one structure is to the <side> of another
AsksSide(q, side) ==
    Contains(lower(q), <<"t", "o", " ", "t", "h", "e", " ">> \o side \o <<" ", "o", "f">>)

\* C16: for a question that asks whether one structure is to the right of (or
\* to the left of) another, a short single-sentence answer without a boundary
\* token is labelled 1 if it contains the asked direction word and not its
\* opposite, and 0 if it contains only the opposite word, whatever side words
\* the structure names of the question hold.
C16_AskedSideDecides ==
    pc = "parsed" =>
        LET t  == strip(ans)
            lt == lower(t)
        IN  \A side \in {<<W_right, W_left>>, <<W_left, W_right>>} :
                ( /\ AsksSide(question, side[1])
                  /\ ShortSentence(t)
                  /\ ~BoundaryMatch(t) )
                    => /\ (Contains(lt, side[1]) /\ ~Contains(lt, side[2]))
                            => result[1] = Some(1)
                       /\ (Contains(lt, side[2]) /\ ~Contains(lt, side[1]))
                            => result[1] = Some(0)

\* the character at index i of t is a letter or a digit
InWord(t, i) == i >= 1 /\ i <= Len(t) /\ t[i] \in Letters \cup Digits

\* the trimmed answer t starts, after leading wrapping characters, with a whole
\* token, or ends, before trailing ones, with a whole token
WholeBoundaryToken(t) ==
    LET lt == lower(t)
    IN  \E i \in 1..Len(t), tok \in AnswerTokens :
            /\ MatchAt(lt, i, tok)
            /\ ~InWord(t, i - 1) /\ ~InWord(t, i + Len(tok))
            /\ \/ \A j \in 1..(i - 1) : t[j] \in WrapBefore
               \/ \A j \in (i + Len(tok))..Len(t) : t[j] \in WrapAfter

\* C17: the boundary-token tier decides only on a whole token: an answer that
\* neither starts nor ends with a whole 0, 1, yes or no (a longer word or
\* number that begins or ends with those characters is none) gets no label
\* from it, so it is unparseable unless a spatial tier or the keyword tier
\* decides.
C17_WholeTokenOnly ==
    pc = "parsed" =>
        LET t       == strip(ans)
            cleaned == Cleaned(t, prompt)
        IN  ( /\ ~WholeBoundaryToken(t)
              /\ ~SpatialDecides(ans, question, prompt)
              /\ \A d \in {W_0, W_1} : ~AnchorsDigit(cleaned, d) )
                => result = <<None, Some(cleaned)>>

\* the token t starts with, after leading wrapping characters (None if none)
StartToken(t) ==
    LET lt   == lower(t)
        toks == {tok \in AnswerTokens :
                   \E i \in 1..Len(t) : /\ MatchAt(lt, i, tok)
                                        /\ \A j \in 1..(i - 1) : t[j] \in WrapBefore}
    IN  IF toks = {} THEN None ELSE Some(CHOOSE tok \in toks : TRUE)

\* the token t ends with, before trailing wrapping characters (None if none)
EndToken(t) ==
    LET lt   == lower(t)
        toks == {tok \in AnswerTokens :
                   \E i \in 1..Len(t) :
                       /\ MatchAt(lt, i, tok)
                       /\ \A j \in (i + Len(tok))..Len(t) : t[j] \in WrapAfter}
    IN  IF toks = {} THEN None ELSE Some(CHOOSE tok \in toks : TRUE)

\* C18: an answer whose trimmed text has a 0/1/yes/no match at its start gets
\* the label of that match, also when it has a match of the opposite meaning
\* at its end; the match at the end gives the label only when there is none at
\* the start.
C18_StartBeforeEnd ==
    pc = "parsed" =>
        LET first == StartToken(strip(ans))
            last  == EndToken(strip(ans))
        IN  /\ first # None => result = <<Some(TokenMeaning(first[1])), None>>
            /\ (first = None /\ last # None)
                   => result = <<Some(TokenMeaning(last[1])), None>>

\* "No, the answer is 1" is labelled 0
C18_Witness ==
    /\ pc = "parsed"
    /\ ans = A_no_answer_is_1
    /\ StartToken(ans) = Some(W_no) /\ EndToken(ans) = Some(W_1)
    /\ result = <<Some(0), None>>

\* t with the trimmed non-blank lines taken out, one line after the other
RECURSIVE WithoutLines(_, _)
WithoutLines(t, lines) ==
    IF lines = <<>> THEN t
    ELSE LET ls == strip(Head(lines))
         IN  WithoutLines(IF ls = <<>> THEN t ELSE replace(t, ls), Tail(lines))

\* the trimmed answer with every non-blank, trimmed line of the prompt removed
PromptStripped(a, p) == WithoutLines(strip(a), splitlines(p))

\* the first run of characters other than . ! ? of text, with the terminator
\* that follows it if there is one (empty if text has no such character)
FirstRun(text) ==
    LET i == SkipClass(text, 1, Terminators)
        j == SkipTo(text, i, Terminators)
    IN  SubSeq(text, i, IF j <= Len(text) THEN j ELSE Len(text))

\* t fails the short-sentence gate
FailsGate(t) ==
    \/ \E i \in 1..Len(t) : t[i] = "\n"
    \/ \E i, j \in 1..Len(t) : i < j /\ t[i] \in Terminators /\ t[j] \in Terminators
    \/ Len(t) >= ShortLimit

\* C19: for an answer with no boundary token that fails the short-sentence
\* gate, a direction-based label comes only from the first clause of the
\* prompt-stripped text: if the clause holds a direction word that decides, the
\* label is the one that clause gives; if it holds none, the label is the
\* keyword tier's digit or there is no label, whatever direction words follow
\* the clause.
C19_FirstClauseOnly ==
    pc = "parsed" =>
        LET t       == strip(ans)
            cleaned == PromptStripped(ans, prompt)
            clause  == FirstRun(cleaned)
        IN  (~BoundaryMatch(t) /\ FailsGate(t))
              => /\ DirectionMatches(clause, question)
                      => result[1] = parse_spatial_relation(question, clause)
                 /\ ~DirectionMatches(clause, question)
                      => \/ result[1] = None
                         \/ \E d \in {W_0, W_1} :
                                /\ AnchorsDigit(cleaned, d)
                                /\ result[1] = Some(DigitLabel(d))

\* the long sentence that names the side after its first clause, for a left-of
\* question: no label
C19_Witness ==
    /\ pc = "parsed"
    /\ ans = A_long /\ question = Q_left_of
    /\ DirectionMatches(ans, question)
    /\ ~DirectionMatches(FirstRun(ans), question)
    /\ result = <<None, Some(A_long)>>

\* the label was decided by one of the tiers 1 to 4: exact digit, exact yes/no,
\* boundary token, short-sentence spatial check
DecidedEarly(a, q) ==
    LET t == strip(a)
    IN  BoundaryMatch(t) \/ (ShortSentence(t) /\ DirectionMatches(t, q))

\* C20: the residual text of a parse result is None exactly when the label was
\* decided by tiers 1 to 4; in every other outcome it is the trimmed answer
\* with every non-blank, trimmed prompt line removed; an unparseable result
\* never has a None residual text.
C20_ResidualText ==
    pc = "parsed" =>
        /\ result[2] = None <=> DecidedEarly(ans, question)
        /\ ~DecidedEarly(ans, question)
              => result[2] = Some(PromptStripped(ans, prompt))
        /\ result[1] = None => result[2] # None

\* an unparseable answer that echoes a prompt line: the residual text is the
\* answer without that line
C20_Witness ==
    /\ pc = "parsed"
    /\ ans = <<"(", "l", "e", "f", "t", "\n">>
    /\ question = Q_above /\ prompt = P_two_lines
    /\ ~DecidedEarly(ans, question)
    /\ result = <<None, Some(<<"(">>)>>

---------------------------------------------------------------------------
(* Properties of the keyword tier *)

\* no tier before the keyword tier decides
NoEarlierTier(a, q, p) ==
    /\ ~DecidedEarly(a, q)
    /\ ~DirectionMatches(FirstRun(PromptStripped(a, p)), q)

\* lt holds at index i a keyword, then nothing, ":" or " is", then the gap,
\* then d; the gap is one space if strict, any run of whitespace or none if not
PhraseAt(lt, i, strict, d) ==
    \E k \in 1..Len(KeywordAlt) :
        /\ MatchAt(lt, i, KeywordAlt[k])
        /\ \E sep \in PhraseLinks :
               LET from == i + Len(KeywordAlt[k]) + Len(sep)
               IN  /\ MatchAt(lt, i + Len(KeywordAlt[k]), sep)
                   /\ IF strict THEN MatchAt(lt, from, <<" ">> \o d)
                      ELSE \E j \in from..Len(lt) :
                               /\ \A x \in from..(j - 1) : lt[x] \in WS
                               /\ lt[j] = d[1]

\* the first phrase of text states digit d
FirstPhrase(text, strict, d) ==
    LET lt == lower(text)
        at == {i \in 1..Len(lt) : \E e \in {W_0, W_1} : PhraseAt(lt, i, strict, e)}
    IN  /\ at # {}
        /\ PhraseAt(lt, CHOOSE i \in at : \A j \in at : i <= j, strict, d)

\* the statement with one space before the digit: when no earlier tier
\* decides, the label is D exactly if the first keyword, optional ":" or " is",
\* space, digit phrase of the prompt-stripped text holds D; a keyword followed
\* directly by the digit is no such phrase
C21_KeywordSpaceDigit ==
    pc = "parsed" =>
        (NoEarlierTier(ans, question, prompt) =>
            \A d \in {W_0, W_1} :
                result[1] = Some(DigitLabel(d))
                    <=> FirstPhrase(PromptStripped(ans, prompt), TRUE, d))

\* C21: when no earlier tier decides, the keyword tier returns digit D if and
\* only if the first phrase of the prompt-stripped text that consists of a
\* keyword (answer, correct answer, final answer, solution, response, in any
\* letter case), an optional ":" or " is", any whitespace or none, and a digit
\* holds D.
C21_KeywordDigit ==
    pc = "parsed" =>
        (NoEarlierTier(ans, question, prompt) =>
            \A d \in {W_0, W_1} :
                result[1] = Some(DigitLabel(d))
                    <=> FirstPhrase(PromptStripped(ans, prompt), FALSE, d))

\* "response 1, final answer: 0 I think": the first phrase decides, label 1
C21_Witness ==
    /\ pc = "parsed"
    /\ ans = A_two_anchors /\ question = Q_left_of
    /\ NoEarlierTier(ans, question, prompt)
    /\ result = <<Some(1), Some(A_two_anchors)>>

---------------------------------------------------------------------------
(* Properties of canon_name *)

\* the words of s: its maximal runs of characters other than whitespace, in order
NameWords(s) ==
    LET starts == {i \in 1..Len(s) : s[i] \notin WS /\ (i = 1 \/ s[i - 1] \in WS)}
        stop(i) == CHOOSE j \in i..Len(s) :
                      /\ \A k \in i..j : s[k] \notin WS
                      /\ (j = Len(s) \/ s[j + 1] \in WS)
        RECURSIVE from(_)
        from(i) == IF \E k \in starts : k >= i
                   THEN LET a == CHOOSE k \in starts :
                                    k >= i /\ \A m \in starts : m >= i => k <= m
                        IN  <<SubSeq(s, a, stop(a))>> \o from(stop(a) + 1)
                   ELSE <<>>
    IN  from(1)

\* the words with an underscore after each
RECURSIVE Underscored(_)
Underscored(words) ==
    IF words = <<>> THEN <<>> ELSE Head(words) \o <<"_">> \o Underscored(Tail(words))

\* the words with an underscore between them
Joined(words) ==
    LET u == Underscored(words) IN SubSeq(u, 1, Len(u) - 1)

\* C22: canon_name lower-cases the name and splits it into whitespace-separated
\* words; if the first word is left or right the result is the remaining words
\* joined by underscores, then an underscore and that side word; otherwise it
\* is all words joined by underscores; a name without words gives the empty
\* string; the result never holds whitespace.
C22_CanonicalForm ==
    canon # None /\ canon.once # None =>
        LET words == NameWords(lower(canon.name))
            out   == canon.once[1]
        IN  /\ words = <<>> => out = <<>>
            /\ (words # <<>> /\ words[1] \in {W_left, W_right})
                  => out = Joined(Tail(words)) \o <<"_">> \o words[1]
            /\ (words # <<>> /\ words[1] \notin {W_left, W_right})
                  => out = Joined(words)
            /\ \A i \in 1..Len(out) : out[i] \notin WS

\* " Right\tKidney" gives "kidney_right"
C22_Witness ==
    /\ canon # None
    /\ lower(canon.name) = <<"r", "i", "g", "h", "t", "\t", "k", "i", "d", "n", "e", "y">>
    /\ canon.once = Some(<<"k", "i", "d", "n", "e", "y", "_", "r", "i", "g", "h", "t">>)

\* C23: canon_name of a canonical name is that name, for every structure name,
\* a bare side word and a name that repeats side words included.
C23_CanonIdempotent ==
    canon # None /\ canon.twice # None => canon.twice = canon.once

\* "left Right" gives "right_left", and that gives itself
C23_Witness ==
    /\ canon # None
    /\ canon.name = <<"l", "e", "f", "t", " ", "R", "i", "g", "h", "t">>
    /\ canon.once = Some(<<"r", "i", "g", "h", "t", "_", "l", "e", "f", "t">>)
    /\ canon.twice = canon.once

---------------------------------------------------------------------------
(* Properties of the order of the runs *)

\* the number a string of decimal digits writes
RECURSIVE Decimal(_)
Decimal(ds) ==
    IF ds = <<>> THEN 0
    ELSE 10 * Decimal(SubSeq(ds, 1, Len(ds) - 1)) + (ord[ds[Len(ds)]] - ord["0"])

\* the run index of a run file: the digits between "_run_" and ".json"
RunIndex(f) ==
    LET e == Len(f) - Len(S_json)
        d == SkipClassBack(f, e, DigitClass)
    IN  Decimal(SubSeq(f, d + 1, e))

\* the runs stand in ascending order of their run index
InIndexOrder(runs) ==
    \A i, j \in 1..Len(runs) : i < j => RunIndex(runs[i]) <= RunIndex(runs[j])

\* C24: for every base name, the run files are evaluated and passed to
\* aggregation and reporting in ascending order of their numeric run index,
\* for any set of run indices, indices of 10 or more and of differing digit
\* counts included, in the image script and in the anatomy script.
C24_RunsInIndexOrder ==
    /\ \A w \in imain.written : InIndexOrder(w.runs)
    /\ \A w \in amain.written : InIndexOrder(w.runs)

---------------------------------------------------------------------------
(* Properties of the counters and the label lists *)

\* the number of positions at which two label lists agree
EqualPairs(preds, targs) ==
    Cardinality({i \in 1..Len(preds) : preds[i] = targs[i]})

\* every label of the list is 0 or 1
Binary(labels) == \A i \in 1..Len(labels) : labels[i] \in {0, 1}

\* C25: after any sequence of records the counters agree with the label
\* lists.  In evaluate_run every record adds one to correct + incorrect and
\* one pair to the lists, correct + incorrect is the number of pairs, correct
\* is the number of equal pairs and the accuracy returned is correct over the
\* total.  In eval_run anat_correct + anat_incorrect = anat_total = the length
\* of the anatomy lists and img_correct + img_incorrect = img_total = the
\* length of the image lists, in the loop and in the dictionary returned.
\* Every prediction is 0 or 1, the expected answers being 0 or 1.
C25_CountersAgreeWithLists ==
    /\ []( /\ run.correct + run.incorrect = Len(run.preds)
           /\ Len(run.preds) = Len(run.targs)
           /\ run.correct = EqualPairs(run.preds, run.targs)
           /\ Binary(run.preds) )
    /\ []( metrics # None =>
             /\ metrics[1].correct_count = EqualPairs(run.preds, run.targs)
             /\ metrics[1].correct_count + metrics[1].incorrect_count = Len(run.targs)
             /\ metrics[1].accuracy =
                  <<metrics[1].correct_count,
                    metrics[1].correct_count + metrics[1].incorrect_count>> )
    /\ [][ run' # run =>
             /\ run'.correct + run'.incorrect = run.correct + run.incorrect + 1
             /\ Len(run'.preds) = Len(run.preds) + 1 ]_vars
    /\ []( /\ arun.anat_corr + arun.anat_wrong = arun.anat_tot
           /\ arun.anat_tot = Len(arun.anat_preds)
           /\ arun.anat_tot = Len(arun.anat_targs)
           /\ arun.anat_corr = EqualPairs(arun.anat_preds, arun.anat_targs)
           /\ arun.img_corr + arun.img_wrong = arun.img_tot
           /\ arun.img_tot = Len(arun.img_preds)
           /\ arun.img_tot = Len(arun.img_targs)
           /\ arun.img_corr = EqualPairs(arun.img_preds, arun.img_targs)
           /\ Binary(arun.anat_preds) /\ Binary(arun.img_preds) )
    /\ []( ametrics # None =>
             /\ ametrics[1].anat_correct + ametrics[1].anat_incorrect
                  = ametrics[1].anat_total
             /\ ametrics[1].anat_total = Len(arun.anat_targs)
             /\ ametrics[1].img_correct + ametrics[1].img_incorrect
                  = ametrics[1].img_total
             /\ ametrics[1].img_total = Len(arun.img_targs) )

\* a run of eval_run whose two views took different numbers of records: two
\* image pairs, one of them wrong, and one anatomy pair
C25_Witness ==
    /\ pc = "done" /\ ametrics # None
    /\ seen.records = 2
    /\ arun.img_tot = 2 /\ arun.img_corr = 1 /\ arun.img_wrong = 1
    /\ arun.anat_tot = 1 /\ Len(arun.anat_preds) = 1
    /\ ametrics[1].img_total = 2 /\ ametrics[1].anat_total = 1

---------------------------------------------------------------------------
(* Properties of the two copies of the parser *)

\* C26: the two copies of the answer parser are equivalent: for every
\* answer, question and prompt, parse_model_answer of the image script and
\* of the anatomy script return the same label and the same residual text,
\* parse_spatial_relation of the two scripts returns the same label, and
\* so a record receives the same prediction in both evaluations.
C26_ParserCopiesAgree ==
    pc = "parsed" =>
        /\ result_anatomy[1] = result[1]
        /\ result_anatomy[2] = result[2]
        /\ parse_spatial_relation_anatomy(question, ans)
             = parse_spatial_relation(question, ans)
        /\ \A e \in {0, 1} :
             AnatomyPred(Some(e), result_anatomy[1]) = ImagePred(e, result[1])

\* "t", a line break and "1": no token at the start, the token 1 at the end,
\* found by the end search of both copies
C26_Witness ==
    /\ pc = "parsed"
    /\ ans = <<"t", "\n", "1">>
    /\ question = Q_left_of
    /\ result = <<Some(1), None>>
    /\ result_anatomy = <<Some(1), None>>

=============================================================================
